---------------------------- MODULE Spec2Model ----------------------------
(***************************************************************************)
(* A model of the WebDAV-S3 gateway: the SigV4 engine of                   *)
(* src/src/s3/signature.ts (its current variant, lines 264-614) and        *)
(* src/src/s3/presign.ts, and the request pipeline of                      *)
(* src/functions/[[path]].ts with the operation handlers of                *)
(* src/unnamed/part_001 and the WebDAV client of src/unnamed/part_002.     *)
(*                                                                         *)
(* Strings.  A string is a sequence of tokens.  A token is a TLA+ string   *)
(* that stands for one character ("/", "%", "a", " ") or for a run of      *)
(* characters no operation of the program looks inside ("host",            *)
(* "us-east-1").  Flatten gives the string a sequence denotes, so two      *)
(* sequences denote the same string iff they flatten to the same value.    *)
(*                                                                         *)
(* Hashing.  SHA-256 and HMAC-SHA256 are modelled as injective symbolic    *)
(* functions: the digest of a message is one token that spells the         *)
(* message.                                                                *)
(***************************************************************************)
EXTENDS Integers, Sequences, FiniteSets, TLC

-----------------------------------------------------------------------------
(* String primitives of the JavaScript runtime, on token sequences.        *)

RECURSIVE Flatten(_)
Flatten(s) == IF s = <<>> THEN "" ELSE Head(s) \o Flatten(Tail(s))

\* Array.prototype.join(sep): the elements separated by the tokens of sep.
RECURSIVE Join(_, _)
Join(list, sep) ==
    IF list = <<>> THEN <<>>
    ELSE IF Len(list) = 1 THEN Head(list)
    ELSE Head(list) \o sep \o Join(Tail(list), sep)

\* String.prototype.split(sep) for a separator of one token.
RECURSIVE SplitAcc(_, _, _)
SplitAcc(s, sep, cur) ==
    IF s = <<>> THEN <<cur>>
    ELSE IF Head(s) = sep THEN <<cur>> \o SplitAcc(Tail(s), sep, <<>>)
    ELSE SplitAcc(Tail(s), sep, Append(cur, Head(s)))

Split(s, sep) == SplitAcc(s, sep, <<>>)

StartsWith(s, pat) == Len(s) >= Len(pat) /\ SubSeq(s, 1, Len(pat)) = pat

\* String.prototype.replace(/pat/g, rep): every occurrence, left to right.
RECURSIVE ReplaceAll(_, _, _)
ReplaceAll(s, pat, rep) ==
    IF s = <<>> THEN <<>>
    ELSE IF StartsWith(s, pat)
         THEN rep \o ReplaceAll(SubSeq(s, Len(pat) + 1, Len(s)), pat, rep)
         ELSE <<Head(s)>> \o ReplaceAll(Tail(s), pat, rep)

\* The characters \s matches, among the tokens of the model.
Whitespace == {" ", "\t"}

\* String.prototype.trim.
RECURSIVE TrimLeft(_)
TrimLeft(s) ==
    IF s # <<>> /\ Head(s) \in Whitespace THEN TrimLeft(Tail(s)) ELSE s

RECURSIVE TrimRight(_)
TrimRight(s) ==
    IF s # <<>> /\ s[Len(s)] \in Whitespace
    THEN TrimRight(SubSeq(s, 1, Len(s) - 1)) ELSE s

Trim(s) == TrimRight(TrimLeft(s))

\* String.prototype.replace(/\s+/g, ' '): each run of whitespace becomes
\* one space.
RECURSIVE CollapseWhitespace(_)
CollapseWhitespace(s) ==
    IF s = <<>> THEN <<>>
    ELSE IF Head(s) \in Whitespace
         THEN <<" ">> \o CollapseWhitespace(TrimLeft(s))
         ELSE <<Head(s)>> \o CollapseWhitespace(Tail(s))

\* String.prototype.toLowerCase on the tokens of the model that hold an
\* upper-case letter; every other token has none.
LowerTable ==
    [t \in {"Authorization", "Host", "X-Amz-Date", "X-Amz-Content-Sha256", "Date", "B", "A",
            "AWS4-HMAC-SHA256", "Credential=", "SignedHeaders=", "Signature=",
            "CREDENTIAL="} |->
        CASE t = "Authorization" -> "authorization"
          [] t = "Host" -> "host"
          [] t = "X-Amz-Date" -> "x-amz-date"
          [] t = "X-Amz-Content-Sha256" -> "x-amz-content-sha256"
          [] t = "Date" -> "date"
          [] t = "B" -> "b"
          [] t = "A" -> "a"
          [] t = "AWS4-HMAC-SHA256" -> "aws4-hmac-sha256"
          [] t = "Credential=" -> "credential="
          [] t = "CREDENTIAL=" -> "credential="
          [] t = "SignedHeaders=" -> "signedheaders="
          [] t = "Signature=" -> "signature="]

toLowerCase(t) == IF t \in DOMAIN LowerTable THEN LowerTable[t] ELSE t

RECURSIVE LowerSeq(_)
LowerSeq(s) ==
    IF s = <<>> THEN <<>> ELSE <<toLowerCase(Head(s))>> \o LowerSeq(Tail(s))


-----------------------------------------------------------------------------
(* The hashing primitives (Web Crypto), as injective symbolic functions.   *)

\* arrayBufferToHex: the lower-case hex spelling of a buffer.
arrayBufferToHex(buffer) == "hex(" \o buffer \o ")"

\* hmacSha256(key, message): key is a string (token sequence) or a buffer
\* (a sequence of one digest token); the result is a buffer.
hmacSha256(key, message) ==
    "hmac(" \o Flatten(key) \o "|" \o Flatten(message) \o ")"

\* sha256(message): the hex digest of a string.
sha256(message) == arrayBufferToHex("sha256(" \o Flatten(message) \o ")")

\* getSigningKey: the four-level key-derivation chain.
getSigningKey(secretKey, dateStamp, region, service) ==
    LET kDate    == hmacSha256(<<"AWS4">> \o secretKey, dateStamp)
        kRegion  == hmacSha256(<<kDate>>, region)
        kService == hmacSha256(<<kRegion>>, service)
        kSigning == hmacSha256(<<kService>>, <<"aws4_request">>)
    IN  kSigning

-----------------------------------------------------------------------------
(* URI encoding and decoding.                                              *)

\* encodeURIComponent leaves A-Z a-z 0-9 - _ . ! ~ * ' ( ) alone and
\* percent-encodes the UTF-8 bytes of every other character.  PercentOf
\* lists the characters of the model it encodes.
PercentOf ==
    [c \in {" ", "/", "%", "=", "&", "+", ":", ",", ";", "e'"} |->
        CASE c = " "  -> <<"%", "2", "0">>
          [] c = "/"  -> <<"%", "2", "F">>
          [] c = "%"  -> <<"%", "2", "5">>
          [] c = "="  -> <<"%", "3", "D">>
          [] c = "&"  -> <<"%", "2", "6">>
          [] c = "+"  -> <<"%", "2", "B">>
          [] c = ":"  -> <<"%", "3", "A">>
          [] c = ","  -> <<"%", "2", "C">>
          [] c = ";"  -> <<"%", "3", "B">>
          [] c = "e'" -> <<"%", "C", "3", "%", "A", "9">>]

RECURSIVE encodeURIComponent(_)
encodeURIComponent(str) ==
    IF str = <<>> THEN <<>>
    ELSE (IF Head(str) \in DOMAIN PercentOf
          THEN PercentOf[Head(str)] ELSE <<Head(str)>>)
         \o encodeURIComponent(Tail(str))

\* uriEncode(str, encodeSlash) of signature.ts and presign.ts.
uriEncode(str, encodeSlash) ==
    LET encoded ==
            ReplaceAll(ReplaceAll(ReplaceAll(ReplaceAll(ReplaceAll(
                encodeURIComponent(str),
                <<"!">>, <<"%", "2", "1">>),
                <<"'">>, <<"%", "2", "7">>),
                <<"(">>, <<"%", "2", "8">>),
                <<")">>, <<"%", "2", "9">>),
                <<"*">>, <<"%", "2", "A">>)
    IN  IF ~encodeSlash
        THEN ReplaceAll(ReplaceAll(encoded, <<"%", "2", "F">>, <<"/">>),
                        <<"%", "2", "f">>, <<"/">>)
        ELSE encoded

HexDigits ==
    {"0", "1", "2", "3", "4", "5", "6", "7", "8", "9",
     "A", "B", "C", "D", "E", "F", "a", "b", "c", "d", "e", "f"}

HexUpper(c) ==
    CASE c = "a" -> "A" [] c = "b" -> "B" [] c = "c" -> "C"
      [] c = "d" -> "D" [] c = "e" -> "E" [] c = "f" -> "F"
      [] OTHER -> c

\* The characters of the model an escape of one byte (below 0x80) decodes
\* to, and the one escape of two bytes the model uses.
AsciiOfEscape ==
    [b \in {"20", "25", "26", "2B", "2C", "2F", "3A", "3B", "3D", "61", "62"} |->
        CASE b = "20" -> " " [] b = "25" -> "%" [] b = "26" -> "&"
          [] b = "2B" -> "+" [] b = "2C" -> "," [] b = "2F" -> "/"
          [] b = "3A" -> ":" [] b = "3B" -> ";" [] b = "3D" -> "="
          [] b = "61" -> "a" [] b = "62" -> "b"]

Utf8OfEscape == [b \in {"C3A9"} |-> "e'"]

\* The number of bytes a UTF-8 lead byte announces (0: not a lead byte).
Utf8Length(h) ==
    CASE h \in {"C", "D"} -> 2 [] h = "E" -> 3 [] h = "F" -> 4 [] OTHER -> 0

\* s starts with n continuation escapes %8x..%Bx.
RECURSIVE ContinuationEscapes(_, _)
ContinuationEscapes(s, n) ==
    IF n = 0 THEN TRUE
    ELSE /\ Len(s) >= 3
         /\ s[1] = "%"
         /\ HexUpper(s[2]) \in {"8", "9", "A", "B"}
         /\ s[3] \in HexDigits
         /\ ContinuationEscapes(SubSeq(s, 4, Len(s)), n - 1)

RECURSIVE EscapeBytes(_, _)
EscapeBytes(s, n) ==
    IF n = 0 THEN ""
    ELSE HexUpper(s[2]) \o HexUpper(s[3]) \o EscapeBytes(SubSeq(s, 4, Len(s)), n - 1)

\* decodeURIComponent: [ok |-> FALSE] stands for the URIError it throws on
\* a '%' not followed by two hex digits or on bytes that are not UTF-8.
RECURSIVE decodeURIComponent(_)
decodeURIComponent(s) ==
    IF s = <<>> THEN [ok |-> TRUE, str |-> <<>>]
    ELSE IF Head(s) # "%"
    THEN LET r == decodeURIComponent(Tail(s))
         IN  [ok |-> r.ok, str |-> IF r.ok THEN <<Head(s)>> \o r.str ELSE <<>>]
    ELSE IF Len(s) < 3 \/ s[2] \notin HexDigits \/ s[3] \notin HexDigits
    THEN [ok |-> FALSE, str |-> <<>>]
    ELSE IF HexUpper(s[2]) \in {"0", "1", "2", "3", "4", "5", "6", "7"}
    THEN LET r == decodeURIComponent(SubSeq(s, 4, Len(s)))
         IN  [ok |-> r.ok,
              str |-> IF r.ok THEN <<AsciiOfEscape[EscapeBytes(s, 1)]>> \o r.str
                      ELSE <<>>]
    ELSE LET n == Utf8Length(HexUpper(s[2]))
         IN  IF n = 0 \/ ~ContinuationEscapes(SubSeq(s, 4, Len(s)), n - 1)
             THEN [ok |-> FALSE, str |-> <<>>]
             ELSE LET r == decodeURIComponent(SubSeq(s, 3 * n + 1, Len(s)))
                  IN  [ok |-> r.ok,
                       str |-> IF r.ok
                               THEN <<Utf8OfEscape[EscapeBytes(s, n)]>> \o r.str
                               ELSE <<>>]

-----------------------------------------------------------------------------
(* Collation: String.prototype.localeCompare and code-unit order.          *)

\* The tokens that occur in query-parameter names and object keys, in
\* ascending UTF-8 byte order of their first character.
TokensByCodeUnit ==
    <<" ", "%", "-", ".", "/", "0", "1", "2", "2024", "A", "B", "B.txt",
      "X-Amz-Algorithm", "X-Amz-Credential",
      "X-Amz-Date", "X-Amz-Expires", "X-Amz-Signature", "X-Amz-SignedHeaders",
      "_", "a", "a.jpg", "a.txt", "b", "b.jpg", "bucket", "c", "c.jpg", "dav",
      "delimiter", "max-keys", "photos", "prefix">>

CodeUnit(t) == CHOOSE i \in 1..Len(TokensByCodeUnit) : TokensByCodeUnit[i] = t

\* The same tokens by the primary weight of the default (root) collation
\* localeCompare uses: punctuation, then digits, then letters whatever
\* their case.  Tokens of one group have the same primary weight.
TokensByLocale ==
    << {" "}, {"_"}, {"-"}, {"."}, {"/"}, {"%"}, {"0"}, {"1"}, {"2"}, {"2024"},
       {"a", "A"}, {"a.jpg"}, {"a.txt"}, {"b", "B"}, {"b.jpg"}, {"B.txt"},
       {"bucket"}, {"c"}, {"c.jpg"}, {"dav"},
       {"delimiter"}, {"max-keys"}, {"photos"}, {"prefix"}, {"X-Amz-Algorithm"},
       {"X-Amz-Credential"}, {"X-Amz-Date"}, {"X-Amz-Expires"},
       {"X-Amz-Signature"}, {"X-Amz-SignedHeaders"} >>

LocalePrimary(t) == CHOOSE i \in 1..Len(TokensByLocale) : t \in TokensByLocale[i]

\* The tertiary (case) weight: lower case sorts before upper case.
LocaleCase(t) == IF t \in {"A", "B", "B.txt"} THEN 1 ELSE 0

\* -1, 0 or 1: lexicographic comparison of two integer sequences.
RECURSIVE CompareSeq(_, _)
CompareSeq(a, b) ==
    IF a = <<>> /\ b = <<>> THEN 0
    ELSE IF a = <<>> THEN -1
    ELSE IF b = <<>> THEN 1
    ELSE IF Head(a) < Head(b) THEN -1
    ELSE IF Head(a) > Head(b) THEN 1
    ELSE CompareSeq(Tail(a), Tail(b))

MapCodeUnit(s) == [i \in 1..Len(s) |-> CodeUnit(s[i])]
MapLocalePrimary(s) == [i \in 1..Len(s) |-> LocalePrimary(s[i])]
MapLocaleCase(s) == [i \in 1..Len(s) |-> LocaleCase(s[i])]

\* Comparison by UTF-16 code units (for these tokens: by UTF-8 bytes).
codeUnitCompare(a, b) == CompareSeq(MapCodeUnit(a), MapCodeUnit(b))

\* a.localeCompare(b): primary weights first, case only to break a tie.
localeCompare(a, b) ==
    LET p == CompareSeq(MapLocalePrimary(a), MapLocalePrimary(b))
    IN  IF p # 0 THEN p ELSE CompareSeq(MapLocaleCase(a), MapLocaleCase(b))

\* Array.prototype.sort((a, b) => a[0].localeCompare(b[0])) on query
\* entries <<key, value>>: a stable sort.
RECURSIVE InsertByLocale(_, _)
InsertByLocale(sorted, e) ==
    IF sorted = <<>> THEN <<e>>
    ELSE IF localeCompare(e[1], sorted[Len(sorted)][1]) >= 0
         THEN Append(sorted, e)
         ELSE Append(InsertByLocale(SubSeq(sorted, 1, Len(sorted) - 1), e),
                     sorted[Len(sorted)])

RECURSIVE SortByLocale(_)
SortByLocale(entries) ==
    IF entries = <<>> THEN <<>>
    ELSE InsertByLocale(SortByLocale(SubSeq(entries, 1, Len(entries) - 1)),
                        entries[Len(entries)])

-----------------------------------------------------------------------------
(* Dates.                                                                  *)

Digits == <<"0", "1", "2", "3", "4", "5", "6", "7", "8", "9">>

\* String(n) for a natural number.
RECURSIVE NumberToString(_)
NumberToString(n) ==
    IF n < 10 THEN <<Digits[n + 1]>>
    ELSE NumberToString(n \div 10) \o <<Digits[(n % 10) + 1]>>

\* String(n).padStart(2, '0')
PadStart2(n) == IF n < 10 THEN <<"0">> \o NumberToString(n) ELSE NumberToString(n)

\* new Date(dateStr) on the Date header values of the model: the UTC
\* fields of the instant, or ok = FALSE for a string Date cannot parse
\* (getTime() is NaN).
DateParse(dateStr) ==
    CASE Flatten(dateStr) = "Sun, 30 Aug 2015 12:36:00 GMT" ->
            [ok |-> TRUE, year |-> 2015, month |-> 8, day |-> 30,
             hours |-> 12, minutes |-> 36, seconds |-> 0]
      [] Flatten(dateStr) = "Wed, 01 Jan 2020 00:00:00 GMT" ->
            [ok |-> TRUE, year |-> 2020, month |-> 1, day |-> 1,
             hours |-> 0, minutes |-> 0, seconds |-> 0]
      [] OTHER ->
            [ok |-> FALSE, year |-> 0, month |-> 0, day |-> 0,
             hours |-> 0, minutes |-> 0, seconds |-> 0]

\* convertToAwsDateFormat: <<>> stands for null.
convertToAwsDateFormat(dateStr) ==
    LET date == DateParse(dateStr)
    IN  IF ~date.ok THEN <<>>
        ELSE NumberToString(date.year) \o PadStart2(date.month)
             \o PadStart2(date.day) \o <<"T">> \o PadStart2(date.hours)
             \o PadStart2(date.minutes) \o PadStart2(date.seconds) \o <<"Z">>

-----------------------------------------------------------------------------
(* The Authorization header.                                               *)

\* The first index >= i of s that holds no whitespace (Len(s) + 1: none).
RECURSIVE SkipWhitespace(_, _)
SkipWhitespace(s, i) ==
    IF i <= Len(s) /\ s[i] \in Whitespace THEN SkipWhitespace(s, i + 1) ELSE i

\* The first index >= i of s that holds tok (0: none).
RECURSIVE IndexOf(_, _, _)
IndexOf(s, tok, i) ==
    IF i > Len(s) THEN 0
    ELSE IF s[i] = tok THEN i
    ELSE IndexOf(s, tok, i + 1)

\* The tokens of the model that [a-f0-9] (case-insensitive) does not match;
\* a digest token spells lower-case hex digits.
NotHexTokens == {"xyz", " ", "\t", ",", ";", "/", "=", "-", "Signature="}

NoComponents ==
    [ok |-> FALSE, credential |-> <<>>, signedHeaders |-> <<>>,
     signature |-> <<>>, accessKeyId |-> <<>>, dateStamp |-> <<>>,
     region |-> <<>>, service |-> <<>>, terminator |-> <<>>]

\* parseAuthorizationHeader: the match of
\*   /^AWS4-HMAC-SHA256\s+Credential=([^,]+),\s*SignedHeaders=([^,]+),\s*Signature=([a-f0-9]+)$/i
\* and the split of the credential; ok = FALSE stands for null.  i, k and
\* p are where Credential=, SignedHeaders= and Signature= must stand, j
\* and m the commas that end the two [^,]+ groups.  The terminator (fifth
\* credential part) is kept for the properties; the code drops it.
AuthorizationMatches(authHeader, n, i, j, k, m, p) ==
    /\ n >= 1
    /\ toLowerCase(authHeader[1]) = "aws4-hmac-sha256"
    /\ i > 2 /\ i <= n
    /\ toLowerCase(authHeader[i]) = "credential="
    /\ j > i + 1
    /\ k <= n
    /\ toLowerCase(authHeader[k]) = "signedheaders="
    /\ m > k + 1
    /\ p <= n
    /\ toLowerCase(authHeader[p]) = "signature="
    /\ p < n
    /\ \A q \in (p + 1)..n : authHeader[q] \notin NotHexTokens

SignatureComponents(credential, credentialParts, signedHeadersStr, signature) ==
    IF Len(credentialParts) # 5 THEN NoComponents
    ELSE [ok |-> TRUE,
          credential |-> credential,
          signedHeaders |-> Split(signedHeadersStr, ";"),
          signature |-> signature,
          accessKeyId |-> credentialParts[1],
          dateStamp |-> credentialParts[2],
          region |-> credentialParts[3],
          service |-> credentialParts[4],
          terminator |-> credentialParts[5]]

ParseMatched(authHeader, n, i, j, k, m, p) ==
    IF ~AuthorizationMatches(authHeader, n, i, j, k, m, p) THEN NoComponents
    ELSE SignatureComponents(SubSeq(authHeader, i + 1, j - 1),
                             Split(SubSeq(authHeader, i + 1, j - 1), "/"),
                             SubSeq(authHeader, k + 1, m - 1),
                             SubSeq(authHeader, p + 1, n))

ParseFromSignedHeaders(authHeader, i, j, k) ==
    ParseMatched(authHeader, Len(authHeader), i, j, k,
                 IndexOf(authHeader, ",", k + 1),
                 SkipWhitespace(authHeader, IndexOf(authHeader, ",", k + 1) + 1))

ParseFromCredential(authHeader, i) ==
    ParseFromSignedHeaders(authHeader, i, IndexOf(authHeader, ",", i + 1),
        SkipWhitespace(authHeader, IndexOf(authHeader, ",", i + 1) + 1))

parseAuthorizationHeader(authHeader) ==
    ParseFromCredential(authHeader, SkipWhitespace(authHeader, 2))

-----------------------------------------------------------------------------
(* Requests.  A request is [method, pathname, query, headers]: method a    *)
(* string, pathname the url.pathname, query the url.searchParams entries   *)
(* <<key, value>> in URL order, headers a function from the lower-case     *)
(* names of the headers the request carries to their values.               *)

\* The characters a header name cannot hold, among the tokens of the model.
NotNameTokens == {" ", "\t", ":", "/", ",", "(", ")"}

IsHeaderName(name) ==
    name # <<>> /\ \A i \in 1..Len(name) : name[i] \notin NotNameTokens

\* Headers.prototype.get(name): threw stands for the TypeError of a name
\* that is no header name, present = FALSE for null.
HeadersGet(headers, name) ==
    LET key == Flatten(LowerSeq(name))
    IN  IF ~IsHeaderName(name)
        THEN [threw |-> TRUE, present |-> FALSE, value |-> <<>>]
        ELSE IF key \in DOMAIN headers
        THEN [threw |-> FALSE, present |-> TRUE, value |-> headers[key]]
        ELSE [threw |-> FALSE, present |-> FALSE, value |-> <<>>]

-----------------------------------------------------------------------------
(* Signature verification.                                                 *)

\* createCanonicalRequest (signature.ts:370).
createCanonicalRequestWithEmptyLine(method, canonicalUri, canonicalQueryString, canonicalHeaders, signedHeaders, payloadHash) ==
    Join(<<method, canonicalUri, canonicalQueryString,
           canonicalHeaders, signedHeaders, payloadHash>>, <<"\n">>)

createCanonicalRequest(method, canonicalUri, canonicalQueryString, canonicalHeaders, signedHeaders, payloadHash) ==
    Join(<<method, canonicalUri, canonicalQueryString,
           canonicalHeaders \o signedHeaders, payloadHash>>, <<"\n">>)

\* createStringToSign
createStringToSign(algorithm, requestDateTime, credentialScope, canonicalRequest) ==
    LET hashedCanonicalRequest == <<sha256(canonicalRequest)>>
    IN  Join(<<algorithm, requestDateTime, credentialScope,
               hashedCanonicalRequest>>, <<"\n">>)

\* The result of verifySignature: {valid, error}, or threw for an
\* exception that leaves the function.  computed tells whether the
\* signature was calculated; the intermediate values are kept for the
\* properties (the code returns them as debug on a mismatch).
Rejected(error) ==
    [valid |-> FALSE, threw |-> FALSE, error |-> error, computed |-> FALSE,
     requestDateTime |-> <<>>, canonicalUri |-> <<>>, queryParams |-> <<>>,
     canonicalHeaders |-> <<>>, signedHeaders |-> <<>>, payloadHash |-> <<>>,
     canonicalRequest |-> <<>>, stringToSign |-> <<>>,
     calculatedSignature |-> <<>>]

Threw(what) == [Rejected(what) EXCEPT !.threw = TRUE]

\* A faulty loop: a signed header the request does not carry counts as a
\* header with an empty value.
RECURSIVE CanonicalHeadersListOfAbsent(_, _)
CanonicalHeadersListOfAbsent(headers, signedHeaders) ==
    IF signedHeaders = <<>> THEN [stop |-> "none", name |-> <<>>, list |-> <<>>]
    ELSE LET headerName == Head(signedHeaders)
             got == HeadersGet(headers, headerName)
             rest == CanonicalHeadersListOfAbsent(headers, Tail(signedHeaders))
         IN  IF got.threw
             THEN [stop |-> "threw", name |-> headerName, list |-> <<>>]
             ELSE IF rest.stop # "none" THEN rest
             ELSE [stop |-> "none", name |-> <<>>,
                   list |-> <<LowerSeq(headerName) \o <<":">>
                              \o CollapseWhitespace(Trim(got.value))>>
                            \o rest.list]

\* The loop over components.signedHeaders (signature.ts:501-510): the
\* canonical header lines, or the first header that stops it.
RECURSIVE CanonicalHeadersList(_, _)
CanonicalHeadersList(headers, signedHeaders) ==
    IF signedHeaders = <<>> THEN [stop |-> "none", name |-> <<>>, list |-> <<>>]
    ELSE LET headerName == Head(signedHeaders)
             got == HeadersGet(headers, headerName)
             normalizedValue == CollapseWhitespace(Trim(got.value))
             rest == CanonicalHeadersList(headers, Tail(signedHeaders))
         IN  IF got.threw
             THEN [stop |-> "threw", name |-> headerName, list |-> <<>>]
             ELSE IF ~got.present
             THEN [stop |-> "missing", name |-> headerName, list |-> <<>>]
             ELSE IF rest.stop # "none" THEN rest
             ELSE [stop |-> "none", name |-> <<>>,
                   list |-> <<LowerSeq(headerName) \o <<":">> \o normalizedValue>>
                            \o rest.list]

\* A faulty encoding of the query entries: the values are left out.
RECURSIVE EncodeEntriesWithoutValues(_)
EncodeEntriesWithoutValues(entries) ==
    IF entries = <<>> THEN <<>>
    ELSE <<uriEncode(Head(entries)[1], TRUE) \o <<"=">>>>
         \o EncodeEntriesWithoutValues(Tail(entries))

\* The canonical query string (signature.ts:522-525).
RECURSIVE EncodeEntries(_)
EncodeEntries(entries) ==
    IF entries = <<>> THEN <<>>
    ELSE <<uriEncode(Head(entries)[1], TRUE) \o <<"=">>
           \o uriEncode(Head(entries)[2], TRUE)>>
         \o EncodeEntries(Tail(entries))

CanonicalQueryString(query) == Join(EncodeEntries(SortByLocale(query)), <<"&">>)

\* The error strings of verifySignature.
ErrMissingAuthorization == <<"Missing Authorization header">>
ErrInvalidFormat == <<"Invalid Authorization header format">>
ErrInvalidAccessKey == <<"Invalid ", "access key">>
ErrInvalidRegion == <<"Invalid region">>
ErrInvalidService == <<"Invalid service">>
ErrInvalidDate == <<"Invalid Date header format">>
ErrMissingDate == <<"Missing date header">>
ErrMissingSignedHeader(headerName) == <<"Missing signed header: ">> \o headerName
ErrSignatureMismatch == <<"Signature mismatch">>

\* A faulty timestamp resolution: the Date header is preferred to
\* x-amz-date.
RequestDateTimeFromDateFirst(headers) ==
    LET amzDate == HeadersGet(headers, <<"x-amz-date">>)
        dateHeader == HeadersGet(headers, <<"date">>)
    IN  IF dateHeader.present /\ dateHeader.value # <<>>
        THEN IF convertToAwsDateFormat(dateHeader.value) = <<>>
             THEN [error |-> ErrInvalidDate, value |-> <<>>]
             ELSE [error |-> <<>>, value |-> convertToAwsDateFormat(dateHeader.value)]
        ELSE IF amzDate.present /\ amzDate.value # <<>>
        THEN [error |-> <<>>, value |-> amzDate.value]
        ELSE [error |-> ErrMissingDate, value |-> <<>>]

\* The request timestamp (signature.ts:479-497): [error, value].
RequestDateTime(headers) ==
    LET amzDate == HeadersGet(headers, <<"x-amz-date">>)
        dateHeader == HeadersGet(headers, <<"date">>)
    IN  IF amzDate.present /\ amzDate.value # <<>>
        THEN [error |-> <<>>, value |-> amzDate.value]
        ELSE IF dateHeader.present /\ dateHeader.value # <<>>
        THEN IF convertToAwsDateFormat(dateHeader.value) = <<>>
             THEN [error |-> ErrInvalidDate, value |-> <<>>]
             ELSE [error |-> <<>>, value |-> convertToAwsDateFormat(dateHeader.value)]
        ELSE [error |-> ErrMissingDate, value |-> <<>>]

\* verifySignature(request, env) as onRequest calls it (no bodyHash), in
\* three parts: the values read from the request, the canonical request
\* and signature calculated from them, and the checks in the order of the
\* code.

\* signature.ts:562-603: the comparison and the result.
VerifyCompare(components, computed) ==
    IF Flatten(computed.calculatedSignature) # Flatten(components.signature)
    THEN computed
    ELSE [computed EXCEPT !.valid = TRUE, !.error = <<>>]

\* signature.ts:540-560: credential scope, string to sign, signing key and
\* signature.
VerifyCalculate(env, components, requestDateTime, canonicalUri, queryParams, canonicalHeaders, signedHeadersStr, payloadHash, canonicalRequest) ==
    VerifyCompare(components,
        [valid |-> FALSE, threw |-> FALSE, error |-> ErrSignatureMismatch,
         computed |-> TRUE, requestDateTime |-> requestDateTime,
         canonicalUri |-> canonicalUri, queryParams |-> queryParams,
         canonicalHeaders |-> canonicalHeaders,
         signedHeaders |-> signedHeadersStr, payloadHash |-> payloadHash,
         canonicalRequest |-> canonicalRequest,
         stringToSign |->
            createStringToSign(<<"AWS4-HMAC-SHA256">>, requestDateTime,
                components.dateStamp \o <<"/">> \o components.region \o <<"/">>
                \o components.service \o <<"/", "aws4_request">>,
                canonicalRequest),
         calculatedSignature |->
            <<arrayBufferToHex(hmacSha256(
                <<getSigningKey(env.S3_SECRET_ACCESS_KEY, components.dateStamp,
                                components.region, components.service)>>,
                createStringToSign(<<"AWS4-HMAC-SHA256">>, requestDateTime,
                    components.dateStamp \o <<"/">> \o components.region
                    \o <<"/">> \o components.service \o <<"/", "aws4_request">>,
                    canonicalRequest)))>>])

\* signature.ts:512-538: the canonical headers block, the canonical URI,
\* the canonical query string, the payload hash, the canonical request.
VerifyCanonical(request, env, components, requestDateTime, lines, decodedPath, canonicalHeaders, signedHeadersStr, canonicalUri, queryParams, payloadHash) ==
    VerifyCalculate(env, components, requestDateTime, canonicalUri, queryParams,
        canonicalHeaders, signedHeadersStr, payloadHash,
        createCanonicalRequest(request.method, canonicalUri, queryParams,
                               canonicalHeaders, signedHeadersStr, payloadHash))

\* signature.ts:449-519: the checks, in the order of the code.
VerifyChecks(request, env, authHeader, components, date, lines, decodedPath, sha) ==
    IF ~authHeader.present \/ authHeader.value = <<>>
    THEN Rejected(ErrMissingAuthorization)
    ELSE IF ~components.ok THEN Rejected(ErrInvalidFormat)
    ELSE IF Flatten(components.accessKeyId) # Flatten(env.S3_ACCESS_KEY_ID)
    THEN Rejected(ErrInvalidAccessKey)
    ELSE IF Flatten(components.region) # Flatten(env.S3_REGION)
    THEN Rejected(ErrInvalidRegion)
    ELSE IF Flatten(components.service) # "s3" THEN Rejected(ErrInvalidService)
    ELSE IF date.error # <<>> THEN Rejected(date.error)
    ELSE IF lines.stop = "threw" THEN Threw(<<"TypeError">>)
    ELSE IF lines.stop = "missing"
    THEN Rejected(ErrMissingSignedHeader(lines.name))
    ELSE IF ~decodedPath.ok THEN Threw(<<"URIError">>)
    ELSE VerifyCanonical(request, env, components, date.value, lines, decodedPath,
            Join(lines.list, <<"\n">>) \o <<"\n">>,
            Join(components.signedHeaders, <<";">>),
            IF uriEncode(decodedPath.str, FALSE) = <<>> THEN <<"/">>
            ELSE uriEncode(decodedPath.str, FALSE),
            CanonicalQueryString(request.query),
            IF sha.present /\ sha.value # <<>>
            THEN sha.value ELSE <<"UNSIGNED-PAYLOAD">>)

VerifyParsed(request, env, authHeader, components) ==
    VerifyChecks(request, env, authHeader, components,
        RequestDateTime(request.headers),
        CanonicalHeadersList(request.headers, components.signedHeaders),
        decodeURIComponent(request.pathname),
        HeadersGet(request.headers, <<"x-amz-content-sha256">>))

VerifyHeader(request, env, authHeader) ==
    VerifyParsed(request, env, authHeader,
                 parseAuthorizationHeader(authHeader.value))

verifySignature(request, env) ==
    VerifyHeader(request, env, HeadersGet(request.headers, <<"Authorization">>))

-----------------------------------------------------------------------------
(* A conforming SigV4 signer for S3, as the AWS algorithm defines it: the   *)
(* client side, against which the verifier is checked.                     *)

\* UriEncode of the AWS documentation: every character except
\* A-Z a-z 0-9 - _ . ~ is percent-encoded; '/' only when encodeSlash.
AwsPercentOf ==
    [c \in {"!", "'", "(", ")", "*"} |->
        CASE c = "!" -> <<"%", "2", "1">> [] c = "'" -> <<"%", "2", "7">>
          [] c = "(" -> <<"%", "2", "8">> [] c = ")" -> <<"%", "2", "9">>
          [] c = "*" -> <<"%", "2", "A">>] @@ PercentOf

RECURSIVE AwsUriEncode(_, _)
AwsUriEncode(str, encodeSlash) ==
    IF str = <<>> THEN <<>>
    ELSE (IF Head(str) = "/" /\ ~encodeSlash THEN <<"/">>
          ELSE IF Head(str) \in DOMAIN AwsPercentOf THEN AwsPercentOf[Head(str)]
          ELSE <<Head(str)>>)
         \o AwsUriEncode(Tail(str), encodeSlash)

\* Query entries sorted by name in code-unit (byte) order, then by value.
AwsEntryBefore(e, f) ==
    LET c == codeUnitCompare(e[1], f[1])
    IN  c < 0 \/ (c = 0 /\ codeUnitCompare(e[2], f[2]) <= 0)

RECURSIVE AwsInsertEntry(_, _)
AwsInsertEntry(sorted, e) ==
    IF sorted = <<>> THEN <<e>>
    ELSE IF AwsEntryBefore(sorted[Len(sorted)], e) THEN Append(sorted, e)
    ELSE Append(AwsInsertEntry(SubSeq(sorted, 1, Len(sorted) - 1), e),
                sorted[Len(sorted)])

RECURSIVE AwsSortEntries(_)
AwsSortEntries(entries) ==
    IF entries = <<>> THEN <<>>
    ELSE AwsInsertEntry(AwsSortEntries(SubSeq(entries, 1, Len(entries) - 1)),
                        entries[Len(entries)])

RECURSIVE AwsEncodeEntries(_)
AwsEncodeEntries(entries) ==
    IF entries = <<>> THEN <<>>
    ELSE <<AwsUriEncode(Head(entries)[1], TRUE) \o <<"=">>
           \o AwsUriEncode(Head(entries)[2], TRUE)>>
         \o AwsEncodeEntries(Tail(entries))

AwsCanonicalQueryString(query) ==
    Join(AwsEncodeEntries(AwsSortEntries(query)), <<"&">>)

\* The canonical headers block: one line name:value per signed header,
\* each ended by a newline; names (lower case) are given in sorted order.
RECURSIVE AwsCanonicalHeaders(_, _)
AwsCanonicalHeaders(headers, names) ==
    IF names = <<>> THEN <<>>
    ELSE <<Head(names), ":">> \o CollapseWhitespace(Trim(headers[Head(names)]))
         \o <<"\n">> \o AwsCanonicalHeaders(headers, Tail(names))

RECURSIVE AwsSignedHeaders(_)
AwsSignedHeaders(names) ==
    IF names = <<>> THEN <<>>
    ELSE IF Len(names) = 1 THEN <<Head(names)>>
    ELSE <<Head(names), ";">> \o AwsSignedHeaders(Tail(names))

\* The canonical request: method, canonical URI, canonical query string,
\* canonical headers block (ending with a newline), signed-headers list
\* and payload hash, joined with newlines.  path is the resource path the
\* client addresses, not yet encoded.
AwsCanonicalRequest(method, path, query, headers, names, payloadHash) ==
    method \o <<"\n">>
    \o AwsUriEncode(path, FALSE) \o <<"\n">>
    \o AwsCanonicalQueryString(query) \o <<"\n">>
    \o AwsCanonicalHeaders(headers, names) \o <<"\n">>
    \o AwsSignedHeaders(names) \o <<"\n">>
    \o payloadHash

AwsStringToSign(timestamp, scope, canonicalRequest) ==
    <<"AWS4-HMAC-SHA256", "\n">> \o timestamp \o <<"\n">> \o scope \o <<"\n">>
    \o <<arrayBufferToHex("sha256(" \o Flatten(canonicalRequest) \o ")")>>

\* kDate, kRegion, kService, kSigning, then the signature in hex.
AwsSignature(credential, dateStamp, stringToSign) ==
    LET kDate    == hmacSha256(<<"AWS4">> \o credential.secretKey, dateStamp)
        kRegion  == hmacSha256(<<kDate>>, credential.region)
        kService == hmacSha256(<<kRegion>>, <<"s3">>)
        kSigning == hmacSha256(<<kService>>, <<"aws4_request">>)
    IN  arrayBufferToHex(hmacSha256(<<kSigning>>, stringToSign))

\* The Authorization header value of a signed request.
AuthorizationHeader(scheme, accessKeyId, dateStamp, region, service, terminator, signedHeaders, signature) ==
    scheme \o <<" ", "Credential=">> \o accessKeyId \o <<"/">> \o dateStamp
    \o <<"/">> \o region \o <<"/">> \o service
    \o (IF terminator = <<>> THEN <<>> ELSE <<"/">> \o terminator)
    \o <<",", " ", "SignedHeaders=">> \o signedHeaders
    \o <<",", " ", "Signature=">> \o signature

-----------------------------------------------------------------------------
(* Presigned URLs (presign.ts).                                            *)

RECURSIVE EncodeParts(_)
EncodeParts(parts) ==
    IF parts = <<>> THEN <<>>
    ELSE <<uriEncode(Head(parts), TRUE)>> \o EncodeParts(Tail(parts))

\* createPresignedUrl; now is the instant [dateStamp, time] the clock
\* gives, amzDate its spelling YYYYMMDD'T'HHMMSS'Z'.  The result keeps the
\* parts of the URL and the canonical request.
createPresignedUrl(accessKeyId, secretAccessKey, region, bucket, key, expiresIn, now) ==
    LET method == <<"GET">>
        service == <<"s3">>
        host == bucket \o <<".s3.">> \o region \o <<".amazonaws.com">>
        amzDate == <<now.dateStamp, now.time>>
        dateStamp == <<now.dateStamp>>
        canonicalQueryParams ==
            Join(<< <<"X-Amz-Algorithm", "=", "AWS4-HMAC-SHA256">>,
                    <<"X-Amz-Credential", "=">> \o accessKeyId \o <<"/">>
                        \o dateStamp \o <<"/">> \o region \o <<"/">> \o service
                        \o <<"/", "aws4_request">>,
                    <<"X-Amz-Date", "=">> \o amzDate,
                    <<"X-Amz-Expires", "=">> \o NumberToString(expiresIn),
                    <<"X-Amz-SignedHeaders", "=", "host">> >>, <<"&">>)
        canonicalUri == <<"/">> \o Join(EncodeParts(Split(key, "/")), <<"/">>)
        canonicalHeaders == <<"host", ":">> \o host \o <<"\n">>
        payloadHash == <<"UNSIGNED-PAYLOAD">>
        canonicalRequest ==
            Join(<<method, canonicalUri, canonicalQueryParams, canonicalHeaders,
                   <<"host">>, payloadHash>>, <<"\n">>)
        credentialScope ==
            dateStamp \o <<"/">> \o region \o <<"/">> \o service
            \o <<"/", "aws4_request">>
        hashedCanonicalRequest == <<sha256(canonicalRequest)>>
        stringToSign ==
            Join(<< <<"AWS4-HMAC-SHA256">>, amzDate, credentialScope,
                    hashedCanonicalRequest >>, <<"\n">>)
        signingKey == getSigningKey(secretAccessKey, dateStamp, region, service)
        signature == <<arrayBufferToHex(hmacSha256(<<signingKey>>, stringToSign))>>
    IN  [made |-> TRUE, host |-> host, canonicalUri |-> canonicalUri,
         canonicalQueryParams |-> canonicalQueryParams, amzDate |-> amzDate,
         dateStamp |-> dateStamp, canonicalRequest |-> canonicalRequest,
         stringToSign |-> stringToSign, signature |-> signature]

NoPresignedUrl ==
    [made |-> FALSE, host |-> <<>>, canonicalUri |-> <<>>,
     canonicalQueryParams |-> <<>>, amzDate |-> <<>>, dateStamp |-> <<>>,
     canonicalRequest |-> <<>>, stringToSign |-> <<>>, signature |-> <<>>]

\* new URL(url).searchParams.entries() for a query string: the pairs
\* split at '&' and at the first '=', '+' read as a space and percent
\* escapes decoded.
FormDecode(s) == decodeURIComponent(ReplaceAll(s, <<"+">>, <<" ">>)).str

RECURSIVE ParsePairs(_)
ParsePairs(pairs) ==
    IF pairs = <<>> THEN <<>>
    ELSE LET pair == Head(pairs)
             eq == IndexOf(pair, "=", 1)
             name == IF eq = 0 THEN pair ELSE SubSeq(pair, 1, eq - 1)
             value == IF eq = 0 THEN <<>> ELSE SubSeq(pair, eq + 1, Len(pair))
         IN  (IF pair = <<>> THEN <<>>
              ELSE << <<FormDecode(name), FormDecode(value)>> >>)
             \o ParsePairs(Tail(pairs))

searchParams(queryString) ==
    IF queryString = <<>> THEN <<>> ELSE ParsePairs(Split(queryString, "&"))

-----------------------------------------------------------------------------
(* State.                                                                  *)

VARIABLES
    env,        \* the configuration (Env) of the deployment
    sreq,       \* the request handed to verifySignature
    signed,     \* how the client made it: [by, request (as signed), signature]
    tamper,     \* what was changed after signing ("none": nothing)
    vres,       \* the result of verifySignature
    sphase,     \* "new", "signed", "verified"
    presigned,  \* the result of createPresignedUrl
    inbound,    \* the request onRequest is handling
    pc,         \* where onRequest stands
    signatureResult,    \* what verifySignature returned to onRequest
    s3Request,  \* what parseS3Request returned
    invoked,    \* handleS3Operation has been called
    pending,    \* ensureParentDirs: the directories still to check
    calls,      \* the WebDAV calls made, in order: [method, url, status]
    response,   \* the response of onRequest
    history,    \* the calls and the response of the requests answered before
    xmlInput,   \* the text handed to the XML generators
    xmlOutput,  \* the document they return
    store,      \* the directories and files the WebDAV server holds
    puts        \* the PutObject requests that run at the same time

sigVars == <<sreq, signed, tamper, vres, sphase, presigned>>

gwVars == <<inbound, pc, signatureResult, s3Request, invoked, pending, calls,
            response, history>>

xmlVars == <<xmlInput, xmlOutput>>

putVars == <<store, puts>>

vars == <<env, sigVars, gwVars, xmlVars, putVars>>

-----------------------------------------------------------------------------
(* The inputs of the model.                                                *)

\* The most query parameters a request of the model carries.
MaxParams == 2

ExampleEnv ==
    [WEBDAV_URL |-> <<"https://dav.example/dav", "/">>,
     WEBDAV_USERNAME |-> <<"user">>,
     WEBDAV_PASSWORD |-> <<"password">>,
     S3_ACCESS_KEY_ID |-> <<"AKIDEXAMPLE">>,
     S3_SECRET_ACCESS_KEY |-> <<"wJalrXUtnFEMI/K7MDENG/bPxRfiCYEXAMPLEKEY">>,
     S3_REGION |-> <<"us-east-1">>]

OtherEnv ==
    [ExampleEnv EXCEPT !.WEBDAV_URL = <<"https://dav.example">>,
                       !.S3_ACCESS_KEY_ID = <<"my-access-key">>,
                       !.S3_SECRET_ACCESS_KEY = <<"my-secret-key">>,
                       !.S3_REGION = <<"eu-west-1">>]

Envs == {ExampleEnv, OtherEnv}

\* The credential a client holds for a deployment.
CredentialOf(e) ==
    [accessKeyId |-> e.S3_ACCESS_KEY_ID, secretKey |-> e.S3_SECRET_ACCESS_KEY,
     region |-> e.S3_REGION]

\* Instants: the date stamp and time of x-amz-date, and the Date header of
\* the same instant.
Instants ==
    {[dateStamp |-> "20150830", time |-> "T123600Z",
      httpDate |-> "Sun, 30 Aug 2015 12:36:00 GMT"],
     [dateStamp |-> "20200101", time |-> "T000000Z",
      httpDate |-> "Wed, 01 Jan 2020 00:00:00 GMT"]}

Methods == {<<"GET">>, <<"PUT">>}

\* Resource paths as a client addresses them (not encoded).
Paths == {<<"/", "test.txt">>, <<"/", "b", "/", "a", " ", "b">>,
          <<"/", "b", "/", "a", "/", "b">>}

\* Query parameters: <<key, value>>.
Params == {<<<<"a">>, <<"1">>>>, <<<<"B">>, <<"2">>>>,
           <<<<"prefix">>, <<"a", "/", "b">>>>}

\* The queries of at most MaxParams parameters with distinct keys.
Queries ==
    {q \in UNION {[1..n -> Params] : n \in 0..MaxParams} :
        \A i, j \in 1..Len(q) : i # j => q[i] # q[j]}

\* Values of the x-amz-meta-note header (<<>>: the header is not sent).
MetaValues == {<<>>, <<"v", " ", "w">>, <<"v", " ", " ", "w">>}

EmptyPayloadHash ==
    <<"e3b0c44298fc1c149afbf4c8996fb92427ae41e4649b934ca495991b7852b855">>

HostValue == <<"examplebucket.s3.amazonaws.com">>

\* A request shape: what the client wants to send.
Shapes ==
    [method : Methods, path : Paths, query : Queries, meta : MetaValues,
     dateMode : {"amz", "date"}, instant : Instants]

\* The headers of a shape, without Authorization.
ShapeHeaders(shape) ==
    ("host" :> HostValue)
    @@ ("x-amz-content-sha256" :> EmptyPayloadHash)
    @@ (IF shape.dateMode = "amz"
        THEN "x-amz-date" :> <<shape.instant.dateStamp, shape.instant.time>>
        ELSE "date" :> <<shape.instant.httpDate>>)
    @@ (IF shape.meta = <<>> THEN <<>> ELSE "x-amz-meta-note" :> shape.meta)

\* The names of those headers, lower case and sorted.
ShapeSignedNames(shape) ==
    (IF shape.dateMode = "date" THEN <<"date">> ELSE <<>>)
    \o <<"host", "x-amz-content-sha256">>
    \o (IF shape.dateMode = "amz" THEN <<"x-amz-date">> ELSE <<>>)
    \o (IF shape.meta = <<>> THEN <<>> ELSE <<"x-amz-meta-note">>)

\* The request a conforming client sends for a shape, signed with
\* credential: the path percent-encoded, every header signed.
ConformingRequest(shape, credential) ==
    LET headers == ShapeHeaders(shape)
        names == ShapeSignedNames(shape)
        timestamp == <<shape.instant.dateStamp, shape.instant.time>>
        dateStamp == <<shape.instant.dateStamp>>
        scope == dateStamp \o <<"/">> \o credential.region
                 \o <<"/", "s3", "/", "aws4_request">>
        canonicalRequest ==
            AwsCanonicalRequest(shape.method, shape.path, shape.query, headers,
                                names, EmptyPayloadHash)
        signature ==
            AwsSignature(credential, dateStamp,
                         AwsStringToSign(timestamp, scope, canonicalRequest))
    IN  [method |-> shape.method,
         pathname |-> AwsUriEncode(shape.path, FALSE),
         query |-> shape.query,
         headers |-> headers @@ ("authorization" :>
             AuthorizationHeader(<<"AWS4-HMAC-SHA256">>, credential.accessKeyId,
                                 dateStamp, credential.region, <<"s3">>,
                                 <<"aws4_request">>, AwsSignedHeaders(names),
                                 <<signature>>))]

\* request with the Signature of its Authorization header replaced.
WithSignature(request, signature) ==
    LET auth == request.headers["authorization"]
        p == IndexOf(auth, "Signature=", 1)
    IN  [request EXCEPT !.headers =
            ("authorization" :> (SubSeq(auth, 1, p) \o signature)) @@ @]

\* The signature the gateway itself calculates for a request: what a
\* client must send for the request to be accepted.  <<"0">> when the
\* gateway stops before calculating one.
AcceptedSignature(request, e) ==
    LET r == verifySignature(WithSignature(request, <<"0">>), e)
    IN  IF r.computed THEN r.calculatedSignature ELSE <<"0">>

NoRequest == [method |-> <<>>, pathname |-> <<>>, query |-> <<>>, headers |-> <<>>]

\* The request a client sends for a shape with the signature the gateway
\* accepts for it.
AcceptedRequest(shape, e) ==
    LET r == ConformingRequest(shape, CredentialOf(e))
    IN  WithSignature(r, AcceptedSignature(r, e))

\* Requests made by hand: url.pathname values, date headers, SignedHeaders
\* lists and Authorization headers of every kind the verifier tells apart.
RawPaths == {<<"/", "test.txt">>, <<"/", "b", "/", "%", "z", "z">>,
             <<"/", "b", "/", "%", "E", "4">>,
             <<"/", "b", "/", "a", "%", "2", "F", "b">>}

DateVariants == {"amz", "date", "both", "none", "amz-empty", "amz-empty-date",
                 "date-invalid", "date-empty"}

DateHeaders(variant, instant) ==
    LET amz == "x-amz-date" :> <<instant.dateStamp, instant.time>>
        date == "date" :> <<instant.httpDate>>
    IN  CASE variant = "amz" -> amz
          [] variant = "date" -> date
          [] variant = "both" -> amz @@ date
          [] variant = "none" -> <<>>
          [] variant = "amz-empty" -> "x-amz-date" :> <<>>
          [] variant = "amz-empty-date" -> ("x-amz-date" :> <<>>) @@ date
          [] variant = "date-invalid" -> "date" :> <<"yesterday">>
          [] variant = "date-empty" -> "date" :> <<>>

SignedHeaderVariants ==
    {<<"host">>, <<"Host">>, <<"host", ";", "x-amz-date">>,
     <<"host", ";", "x-amz-acl", ";", "x-amz-meta-note">>,
     <<"host", ";">>}

AuthVariants ==
    {"ok", "absent", "empty", "basic", "lower-scheme", "four-parts", "non-hex",
     "bad-signature", "wrong-key", "wrong-region", "wrong-service",
     "wrong-key-region", "wrong-region-service", "terminator"}

ForgedAuthorization(variant, credential, instant, signedHeaders) ==
    AuthorizationHeader(
        IF variant = "lower-scheme" THEN <<"aws4-hmac-sha256">>
        ELSE <<"AWS4-HMAC-SHA256">>,
        IF variant \in {"wrong-key", "wrong-key-region"} THEN <<"AKIDOTHER">>
        ELSE credential.accessKeyId,
        <<instant.dateStamp>>,
        IF variant \in {"wrong-region", "wrong-key-region", "wrong-region-service"}
        THEN <<"ap-south-1">> ELSE credential.region,
        IF variant \in {"wrong-service", "wrong-region-service"}
        THEN <<"ec2">> ELSE <<"s3">>,
        IF variant = "four-parts" THEN <<>>
        ELSE IF variant = "terminator" THEN <<"aws4">>
        ELSE <<"aws4_request">>,
        signedHeaders,
        IF variant = "non-hex" THEN <<"xyz">> ELSE <<"0">>)

ForgedRequest(e, method, pathname, query, dateVariant, signedHeaders, authVariant, instant) ==
    LET base == ("host" :> HostValue) @@ DateHeaders(dateVariant, instant)
        auth == ForgedAuthorization(authVariant, CredentialOf(e), instant,
                                    signedHeaders)
        headers ==
            CASE authVariant = "absent" -> base
              [] authVariant = "empty" -> base @@ ("authorization" :> <<>>)
              [] authVariant = "basic" ->
                    base @@ ("authorization" :> <<"Basic", " ", "dXNlcjpwdw">>)
              [] OTHER -> base @@ ("authorization" :> auth)
        r == [method |-> method, pathname |-> pathname, query |-> query,
              headers |-> headers]
    IN  IF authVariant \in {"absent", "empty", "basic", "non-hex", "bad-signature"}
        THEN r
        ELSE WithSignature(r, AcceptedSignature(r, e))

-----------------------------------------------------------------------------
(* The signature machine: a client makes a request, something may change   *)
(* it on the way, the gateway verifies it.                                 *)

NoResult == Rejected(<<>>)

NotSigned == [by |-> "none", request |-> NoRequest]

NoS3Request == [bucket |-> <<>>, key |-> <<>>, operation |-> "Unknown"]

NoResponse == [status |-> 0, code |-> "None"]

\* No request has reached onRequest.
GatewayIdle ==
    /\ inbound = NoRequest
    /\ pc = "idle"
    /\ signatureResult = NoResult
    /\ s3Request = NoS3Request
    /\ invoked = FALSE
    /\ pending = <<>>
    /\ calls = <<>>
    /\ response = NoResponse
    /\ history = <<>>

\* No text has been handed to the XML generators.
NoXml == [kind |-> "None", doc |-> <<>>]

XmlIdle ==
    /\ xmlInput = <<>>
    /\ xmlOutput = NoXml

\* No PutObject requests run side by side.
PutIdle ==
    /\ store = {}
    /\ puts = <<>>

\* No request has been handed to verifySignature on its own.
SignatureIdle ==
    /\ sreq = NoRequest
    /\ signed = NotSigned
    /\ tamper = "none"
    /\ vres = NoResult
    /\ sphase = "new"
    /\ presigned = NoPresignedUrl

SigInit ==
    /\ env \in Envs
    /\ SignatureIdle
    /\ GatewayIdle
    /\ XmlIdle
    /\ PutIdle

\* A conforming client signs a request.
SignConforming ==
    /\ sphase = "new"
    /\ \E shape \in Shapes :
        LET r == ConformingRequest(shape, CredentialOf(env))
        IN  /\ sreq' = r
            /\ signed' = [by |-> "aws", request |-> r]
    /\ sphase' = "signed"
    /\ UNCHANGED <<gwVars, xmlVars, putVars, env, tamper, vres, presigned>>

\* The request of the known vector, signed by a conforming signer: GET
\* /test.txt, host and x-amz-date signed, the hash of the empty payload.
KnownVectorHeaders ==
    ("host" :> HostValue) @@ ("x-amz-date" :> <<"20150830", "T123600Z">>)
    @@ ("x-amz-content-sha256" :> EmptyPayloadHash)

KnownVectorSignature ==
    AwsSignature(CredentialOf(ExampleEnv), <<"20150830">>,
        AwsStringToSign(<<"20150830", "T123600Z">>,
            <<"20150830", "/", "us-east-1", "/", "s3", "/", "aws4_request">>,
            AwsCanonicalRequest(<<"GET">>, <<"/", "test.txt">>, <<>>,
                                KnownVectorHeaders, <<"host", "x-amz-date">>,
                                EmptyPayloadHash)))

KnownVectorRequest ==
    [method |-> <<"GET">>,
     pathname |-> <<"/", "test.txt">>,
     query |-> <<>>,
     headers |-> KnownVectorHeaders @@ ("authorization" :>
        AuthorizationHeader(<<"AWS4-HMAC-SHA256">>, <<"AKIDEXAMPLE">>,
                            <<"20150830">>, <<"us-east-1">>, <<"s3">>,
                            <<"aws4_request">>, <<"host", ";", "x-amz-date">>,
                            <<KnownVectorSignature>>))]

SignKnownVector ==
    /\ sphase = "new"
    /\ env = ExampleEnv
    /\ sreq' = KnownVectorRequest
    /\ signed' = [by |-> "vector", request |-> KnownVectorRequest]
    /\ sphase' = "signed"
    /\ UNCHANGED <<gwVars, xmlVars, putVars, env, tamper, vres, presigned>>

\* A client sends a request with the signature the gateway accepts.
SignAccepted ==
    /\ sphase = "new"
    /\ \E shape \in Shapes :
        LET r == AcceptedRequest(shape, env)
        IN  /\ sreq' = r
            /\ signed' = [by |-> "engine", request |-> r]
    /\ sphase' = "signed"
    /\ UNCHANGED <<gwVars, xmlVars, putVars, env, tamper, vres, presigned>>

\* A client sends a request made by hand.
Forge ==
    /\ sphase = "new"
    /\ \E pathname \in RawPaths, dateVariant \in DateVariants,
          signedHeaders \in SignedHeaderVariants, authVariant \in AuthVariants :
        LET r == ForgedRequest(env, <<"GET">>, pathname, <<>>, dateVariant,
                               signedHeaders, authVariant,
                               CHOOSE i \in Instants : i.dateStamp = "20150830")
        IN  /\ sreq' = r
            /\ signed' = [by |-> "forged", request |-> r, auth |-> authVariant,
                          date |-> dateVariant, names |-> signedHeaders]
    /\ sphase' = "signed"
    /\ UNCHANGED <<gwVars, xmlVars, putVars, env, tamper, vres, presigned>>

\* createPresignedUrl is called, and a client sends the request of that
\* URL with header-based authentication: the same method, path, query
\* parameters, signed header (host) and payload hash.
PresignKeys == {<<"test.txt">>, <<"a", " ", "b">>, <<"d", "/", "a">>}

PresignedRequest(url, e) ==
    [method |-> <<"GET">>,
     pathname |-> url.canonicalUri,
     query |-> searchParams(url.canonicalQueryParams),
     headers |->
        ("host" :> url.host) @@ ("x-amz-date" :> url.amzDate)
        @@ ("authorization" :>
            AuthorizationHeader(<<"AWS4-HMAC-SHA256">>, e.S3_ACCESS_KEY_ID,
                                url.dateStamp, e.S3_REGION, <<"s3">>,
                                <<"aws4_request">>, <<"host">>, url.signature))]

\* The request of a client that fetches the presigned URL as it is: the
\* path and the X-Amz-* query parameters of the URL, X-Amz-Signature
\* among them, and no Authorization header.
BearerRequest(url) ==
    [method |-> <<"GET">>,
     pathname |-> url.canonicalUri,
     query |-> searchParams(url.canonicalQueryParams)
               \o <<<<<<"X-Amz-Signature">>, url.signature>>>>,
     headers |-> ("host" :> url.host)]

Presign ==
    /\ sphase = "new"
    /\ \E key \in PresignKeys, expiresIn \in {60, 86400}, now \in Instants,
          by \in {"presign", "bearer"} :
        LET url == createPresignedUrl(env.S3_ACCESS_KEY_ID,
                                      env.S3_SECRET_ACCESS_KEY, env.S3_REGION,
                                      <<"examplebucket">>, key, expiresIn, now)
            request == IF by = "bearer" THEN BearerRequest(url)
                       ELSE PresignedRequest(url, env)
        IN  /\ presigned' = url
            /\ sreq' = request
            /\ signed' = [by |-> by, request |-> request]
    /\ sphase' = "signed"
    /\ UNCHANGED <<gwVars, xmlVars, putVars, env, tamper, vres>>

\* Changes to a signed request on its way; the Authorization header stays.
CanTamper ==
    /\ sphase = "signed"
    /\ tamper = "none"
    /\ signed.by \in {"aws", "engine"}

TamperMethod ==
    /\ CanTamper
    /\ sreq' = [sreq EXCEPT !.method = IF @ = <<"GET">> THEN <<"PUT">> ELSE <<"GET">>]
    /\ tamper' = "method"
    /\ UNCHANGED <<gwVars, xmlVars, putVars, env, signed, vres, sphase, presigned>>

\* The value of a signed header becomes another value.
TamperHeaderValue ==
    /\ CanTamper
    /\ \/ sreq' = [sreq EXCEPT !.headers = ("host" :> <<"evil.example">>) @@ @]
       \/ /\ "x-amz-meta-note" \in DOMAIN sreq.headers
          /\ sreq' = [sreq EXCEPT !.headers =
                        ("x-amz-meta-note" :> <<"v", " ", "x">>) @@ @]
    /\ tamper' = "header-value"
    /\ UNCHANGED <<gwVars, xmlVars, putVars, env, signed, vres, sphase, presigned>>

\* The value of a signed header changes only in its whitespace.
TamperHeaderWhitespace ==
    /\ CanTamper
    /\ "x-amz-meta-note" \in DOMAIN sreq.headers
    /\ \E value \in {<<"v", " ", "w">>, <<"v", " ", " ", "w">>, <<"v", "\t", "w">>} :
        /\ value # sreq.headers["x-amz-meta-note"]
        /\ sreq' = [sreq EXCEPT !.headers = ("x-amz-meta-note" :> value) @@ @]
    /\ tamper' = "header-whitespace"
    /\ UNCHANGED <<gwVars, xmlVars, putVars, env, signed, vres, sphase, presigned>>

\* The path becomes the path of another resource.
TamperPath ==
    /\ CanTamper
    /\ \E path \in Paths :
        /\ AwsUriEncode(path, FALSE) # sreq.pathname
        /\ sreq' = [sreq EXCEPT !.pathname = AwsUriEncode(path, FALSE)]
    /\ tamper' = "path"
    /\ UNCHANGED <<gwVars, xmlVars, putVars, env, signed, vres, sphase, presigned>>

\* The path changes only in its percent-encoding: one '/' after the first
\* becomes %2F, or one 'a' becomes %61.
TamperPathEncoding ==
    /\ CanTamper
    /\ \E i \in 2..Len(sreq.pathname) :
        /\ sreq.pathname[i] \in {"/", "a"}
        /\ sreq' = [sreq EXCEPT !.pathname =
                SubSeq(@, 1, i - 1)
                \o (IF @[i] = "/" THEN <<"%", "2", "F">> ELSE <<"%", "6", "1">>)
                \o SubSeq(@, i + 1, Len(@))]
    /\ tamper' = "path-encoding"
    /\ UNCHANGED <<gwVars, xmlVars, putVars, env, signed, vres, sphase, presigned>>

\* The query string gets another parameter, loses one, or one value changes.
TamperQuery ==
    /\ CanTamper
    /\ \/ sreq' = [sreq EXCEPT !.query = Append(@, <<<<"c">>, <<"0">>>>)]
       \/ /\ sreq.query # <<>>
          /\ \/ sreq' = [sreq EXCEPT !.query = Tail(@)]
             \/ sreq' = [sreq EXCEPT !.query[1][2] = <<"0">>]
    /\ tamper' = "query"
    /\ UNCHANGED <<gwVars, xmlVars, putVars, env, signed, vres, sphase, presigned>>

\* The query string changes only in the order of its parameters.
TamperQueryOrder ==
    /\ CanTamper
    /\ Len(sreq.query) >= 2
    /\ sreq' = [sreq EXCEPT !.query = <<@[2], @[1]>> \o SubSeq(@, 3, Len(@))]
    /\ tamper' = "query-order"
    /\ UNCHANGED <<gwVars, xmlVars, putVars, env, signed, vres, sphase, presigned>>

\* The gateway verifies the request.
Verify ==
    /\ sphase = "signed"
    /\ vres' = verifySignature(sreq, env)
    /\ sphase' = "verified"
    /\ UNCHANGED <<gwVars, xmlVars, putVars, env, sreq, signed, tamper, presigned>>

SigNext ==
    \/ SignConforming
    \/ SignKnownVector
    \/ SignAccepted
    \/ Forge
    \/ Presign
    \/ TamperMethod
    \/ TamperHeaderValue
    \/ TamperHeaderWhitespace
    \/ TamperPath
    \/ TamperPathEncoding
    \/ TamperQuery
    \/ TamperQueryOrder
    \/ Verify

SigSpec == SigInit /\ [][SigNext]_vars

-----------------------------------------------------------------------------
(* Properties of signature verification, under SigSpec.                    *)

Verified == sphase = "verified"

\* A request made by hand whose Authorization header passes the checks of
\* the access key, the region and the service.
ForgedPastAuthorization ==
    /\ Verified
    /\ signed.by = "forged"
    /\ signed.auth \in {"ok", "bad-signature", "lower-scheme", "terminator"}

\* C2: a request signed by a conforming SigV4 signer with the credentials
\* of the gateway and presented as signed is accepted by verifySignature.
C2_ConformingAccepted ==
    (Verified /\ signed.by \in {"aws", "vector"} /\ tamper = "none")
        => vres.valid

C4_SixFields ==
    (Verified /\ vres.computed) =>
        /\ vres.canonicalHeaders[Len(vres.canonicalHeaders)] = "\n"
        /\ Flatten(vres.canonicalRequest) =
            Flatten(Join(<<sreq.method, vres.canonicalUri, vres.queryParams,
                           vres.canonicalHeaders, vres.signedHeaders,
                           vres.payloadHash>>, <<"\n">>))

\* C5: for the same method, path, query parameters, signed headers and
\* payload hash, createPresignedUrl and verifySignature build the same
\* canonical request.
C5_SameCanonicalRequest ==
    (Verified /\ signed.by = "presign" /\ vres.computed) =>
        Flatten(vres.canonicalRequest) = Flatten(presigned.canonicalRequest)

\* C6: for the known vector the engine calculates the signature a
\* conforming signer calculates.
C6_KnownVector ==
    (Verified /\ signed.by = "vector") =>
        /\ vres.computed
        /\ Flatten(vres.calculatedSignature) = KnownVectorSignature

\* The reason verifySignature is to give for an Authorization header.
ExpectedAuthorizationError(variant) ==
    CASE variant \in {"absent", "empty"} -> ErrMissingAuthorization
      [] variant \in {"basic", "four-parts", "non-hex", "terminator"} ->
            ErrInvalidFormat
      [] variant \in {"wrong-key", "wrong-key-region"} -> ErrInvalidAccessKey
      [] variant \in {"wrong-region", "wrong-region-service"} -> ErrInvalidRegion
      [] variant = "wrong-service" -> ErrInvalidService

\* C7: verifySignature never accepts a request whose Authorization header
\* is absent, is not of the format with the five credential parts ending
\* in aws4_request and a hex signature, or names another access key,
\* region or service.
C7_AuthorizationRejected ==
    (Verified /\ signed.by = "forged"
        /\ signed.auth \notin {"ok", "bad-signature", "lower-scheme"}) =>
        ~vres.valid

\* C7, the order of the checks: but for a credential that ends in
\* something else than aws4_request, which the format check lets through,
\* the first check that fails gives the reason and nothing is calculated.
C7_ChecksInOrder ==
    (Verified /\ signed.by = "forged"
        /\ signed.auth \notin {"ok", "bad-signature", "lower-scheme", "terminator"}) =>
        /\ ~vres.valid
        /\ ~vres.threw
        /\ ~vres.computed
        /\ vres.error = ExpectedAuthorizationError(signed.auth)

\* The first name of the SignedHeaders list that the request does not
\* carry (found = FALSE: it carries them all).
RECURSIVE FirstNotCarried(_, _)
FirstNotCarried(headers, names) ==
    IF names = <<>> THEN [found |-> FALSE, name |-> <<>>]
    ELSE IF Flatten(LowerSeq(Head(names))) \notin DOMAIN headers
    THEN [found |-> TRUE, name |-> Head(names)]
    ELSE FirstNotCarried(headers, Tail(names))

NotCarried == FirstNotCarried(sreq.headers, Split(signed.names, ";"))

\* The timestamp resolution found a timestamp.
HasTimestamp == signed.date \notin {"none", "amz-empty", "date-invalid", "date-empty"}

ForgedTimestamp == "20150830T123600Z"

\* C9 as stated: the timestamp is the value of x-amz-date when the header
\* is present, otherwise the converted Date header; the request is rejected
\* with 'Missing date header' when neither is present and with 'Invalid
\* Date header format' when the Date header cannot be parsed.
C9_TimestampByPresence ==
    ForgedPastAuthorization =>
        /\ (vres.computed /\ "x-amz-date" \in DOMAIN sreq.headers) =>
                vres.requestDateTime = sreq.headers["x-amz-date"]
        /\ (vres.computed /\ "x-amz-date" \notin DOMAIN sreq.headers) =>
                Flatten(vres.requestDateTime) = ForgedTimestamp
        /\ (vres.error = ErrMissingDate) =>
                DOMAIN sreq.headers \cap {"x-amz-date", "date"} = {}
        /\ signed.date \in {"date-invalid", "date-empty"} =>
                vres.error = ErrInvalidDate

\* C9 amended: a header with an empty value counts as absent.  The
\* timestamp is the value of x-amz-date when that header has a value,
\* otherwise the converted Date header when that one has a value; the
\* request is rejected with 'Missing date header' when neither has a value
\* and with 'Invalid Date header format' when x-amz-date has none and the
\* value of Date cannot be parsed.  The rejection comes before the signed
\* headers are looked at.
C9_TimestampByValue ==
    ForgedPastAuthorization =>
        /\ signed.date \in {"amz", "both"} =>
                (vres.computed => vres.requestDateTime = sreq.headers["x-amz-date"])
        /\ signed.date \in {"date", "amz-empty-date"} =>
                (vres.computed => Flatten(vres.requestDateTime) = ForgedTimestamp)
        /\ signed.date \in {"none", "amz-empty", "date-empty"} =>
                vres.error = ErrMissingDate
        /\ signed.date = "date-invalid" => vres.error = ErrInvalidDate
        /\ HasTimestamp => vres.error \notin {ErrMissingDate, ErrInvalidDate}

C9_Witness ==
    /\ ForgedPastAuthorization
    /\ signed.date = "date"
    /\ vres.valid
    /\ Flatten(vres.requestDateTime) = ForgedTimestamp
    /\ sreq.headers["date"] = <<"Sun, 30 Aug 2015 12:36:00 GMT">>

-----------------------------------------------------------------------------
(* The gateway: onRequest from the arrival of a request to its response.   *)
(* Every await of the code is a step; the WebDAV server answers each call  *)
(* with any status, or the fetch fails.                                    *)

\* The most resources a PROPFIND answer lists.
MaxResources == 4

\* The most times a client sends the same DELETE request again.
MaxRepeats == 1

\* What a fetch to the WebDAV server comes back with: an HTTP status, or 0
\* when the fetch itself fails (the promise rejects).
UpstreamStatuses == {0, 200, 201, 204, 207, 403, 404, 405, 500}

\* Response.ok
Ok(status) == status \in 200..299

\* String.prototype.toUpperCase on the method tokens of the model.
toUpperCase(t) == IF t = "patch" THEN "PATCH" ELSE t

RECURSIVE UpperSeq(_)
UpperSeq(str) ==
    IF str = <<>> THEN <<>> ELSE <<toUpperCase(Head(str))>> \o UpperSeq(Tail(str))

\* Array.prototype.filter(Boolean) on a list of strings.
RECURSIVE FilterBoolean(_)
FilterBoolean(list) ==
    IF list = <<>> THEN <<>>
    ELSE (IF Head(list) = <<>> THEN <<>> ELSE <<Head(list)>>)
         \o FilterBoolean(Tail(list))

\* validateConfig: TRUE when it returns, FALSE when it throws.
RequiredConfig ==
    {"WEBDAV_URL", "WEBDAV_USERNAME", "WEBDAV_PASSWORD", "S3_ACCESS_KEY_ID",
     "S3_SECRET_ACCESS_KEY", "S3_REGION"}

validateConfig(e) == \A key \in RequiredConfig : e[key] # <<>>

getWebDAVBaseUrl(e) ==
    IF e.WEBDAV_URL # <<>> /\ e.WEBDAV_URL[Len(e.WEBDAV_URL)] = "/"
    THEN e.WEBDAV_URL ELSE e.WEBDAV_URL \o <<"/">>

\* WebDAVClient.buildUrl
buildUrl(e, path) ==
    getWebDAVBaseUrl(e) \o (IF StartsWith(path, <<"/">>) THEN Tail(path) ELSE path)

\* A faulty parseS3Request that takes every HEAD for HeadObject and a
\* method it does not know for a GET.
parseS3RequestByMethodOnly(req) ==
    LET method == UpperSeq(req.method)
        pathParts == FilterBoolean(Split(req.pathname, "/"))
        bucket == IF pathParts = <<>> THEN <<>> ELSE pathParts[1]
        key == IF pathParts = <<>> THEN <<>> ELSE Join(Tail(pathParts), <<"/">>)
    IN  [bucket |-> bucket,
         key |-> key,
         operation |->
            IF method = <<"PUT">> THEN "PutObject"
            ELSE IF method = <<"DELETE">> THEN "DeleteObject"
            ELSE IF method = <<"HEAD">> THEN "HeadObject"
            ELSE (IF key # <<>> THEN "GetObject" ELSE "ListBucket")]

\* A faulty parseS3Request that takes a GET of an object for a stream.
parseS3RequestWithStream(req) ==
    LET method == UpperSeq(req.method)
        pathParts == FilterBoolean(Split(req.pathname, "/"))
        bucket == IF pathParts = <<>> THEN <<>> ELSE pathParts[1]
        key == IF pathParts = <<>> THEN <<>> ELSE Join(Tail(pathParts), <<"/">>)
    IN  [bucket |-> bucket,
         key |-> key,
         operation |->
            IF method = <<"GET">>
            THEN (IF key # <<>> THEN "GetObjectStream" ELSE "ListBucket")
            ELSE IF method = <<"PUT">> THEN "PutObject"
            ELSE IF method = <<"DELETE">> THEN "DeleteObject"
            ELSE IF method = <<"HEAD">>
            THEN (IF key # <<>> THEN "HeadObject" ELSE "HeadBucket")
            ELSE "Unknown"]

parseS3Request(req) ==
    LET method == UpperSeq(req.method)
        pathParts == FilterBoolean(Split(req.pathname, "/"))
        bucket == IF pathParts = <<>> THEN <<>> ELSE pathParts[1]
        key == IF pathParts = <<>> THEN <<>> ELSE Join(Tail(pathParts), <<"/">>)
    IN  [bucket |-> bucket,
         key |-> key,
         operation |->
            IF method = <<"GET">>
            THEN (IF key # <<>> THEN "GetObject" ELSE "ListBucket")
            ELSE IF method = <<"PUT">> THEN "PutObject"
            ELSE IF method = <<"DELETE">> THEN "DeleteObject"
            ELSE IF method = <<"HEAD">>
            THEN (IF key # <<>> THEN "HeadObject" ELSE "HeadBucket")
            ELSE "Unknown"]

\* A faulty buildWebDAVPath that names a bucket without its slash.
buildWebDAVPathWithoutSlash(bucket, key) ==
    IF bucket = <<>> THEN (IF key # <<>> THEN key ELSE <<"/">>)
    ELSE IF key = <<>> THEN bucket
    ELSE bucket \o <<"/">> \o key

buildWebDAVPath(bucket, key) ==
    IF bucket = <<>> THEN (IF key # <<>> THEN key ELSE <<"/">>)
    ELSE IF key = <<>> THEN bucket \o <<"/">>
    ELSE bucket \o <<"/">> \o key

\* ensureParentDirs: the directories it checks, in order (currentPath + '/'
\* for every part but the last).
RECURSIVE DirsOf(_, _)
DirsOf(parts, currentPath) ==
    IF Len(parts) <= 1 THEN <<>>
    ELSE <<currentPath \o <<"/">> \o Head(parts) \o <<"/">>>>
         \o DirsOf(Tail(parts), currentPath \o <<"/">> \o Head(parts))

\* A faulty ensureParentDirs that walks the directories deepest first.
RECURSIVE Reverse(_)
Reverse(list) ==
    IF list = <<>> THEN <<>> ELSE Append(Reverse(Tail(list)), Head(list))

ParentDirsDeepestFirst(path) ==
    Reverse(DirsOf(FilterBoolean(Split(path, "/")), <<>>))

\* A faulty ensureParentDirs that takes the bucket directory for granted.
ParentDirsBelowBucket(path) ==
    IF DirsOf(FilterBoolean(Split(path, "/")), <<>>) = <<>> THEN <<>>
    ELSE Tail(DirsOf(FilterBoolean(Split(path, "/")), <<>>))

ParentDirs(path) == DirsOf(FilterBoolean(Split(path, "/")), <<>>)

\* String.prototype.includes, on the words of an error message.
Includes(str, word) == \E i \in 1..Len(str) : str[i] = word

\* The listing of a response that carries none.
NoListing == [contents |-> <<>>, commonPrefixes |-> <<>>, isTruncated |-> FALSE]

\* The headers of an error response (the request id is left out).
ErrorHeaders == [h \in {"content-type"} |-> <<"application/xml">>]

\* createErrorResponse: the status, and the Code, Message and Resource
\* elements that generateErrorXml writes into the body.
S3Error(status, code, message, resource) ==
    [status |-> status, code |-> code, message |-> message,
     resource |-> resource, headers |-> ErrorHeaders, body |-> "Error",
     listing |-> NoListing]

\* The S3Errors table.
NoSuchKey(key) ==
    S3Error(404, "NoSuchKey", <<"The specified key does not exist.">>, key)

NoSuchBucket(bucket) ==
    S3Error(404, "NoSuchBucket", <<"The specified bucket does not exist.">>, bucket)

InvalidAccessKeyId ==
    S3Error(403, "InvalidAccessKeyId", <<"The AWS Access Key Id you provided does not exist in our records.">>, <<>>)

SignatureDoesNotMatch ==
    S3Error(403, "SignatureDoesNotMatch", <<"The request signature we calculated does not match the signature you provided.">>, <<>>)

InternalError(message) ==
    S3Error(500, "InternalError", IF message # <<>> THEN message ELSE <<"We encountered an internal error. Please try again.">>, <<>>)

MethodNotAllowed(method) ==
    S3Error(405, "MethodNotAllowed", <<"The specified method is not allowed: ">> \o method, <<>>)

\* The message of the error a failed fetch rejects with.
FetchFailed == <<"fetch failed">>

\* A response that is no error: new Response(body, {status, headers}).
\* body is "null", "upstream" (the body of the WebDAV response) or
\* "ListBucketResult".
Success(status, headers, body, listing) ==
    [status |-> status, code |-> "OK", message |-> <<>>, resource |-> <<>>,
     headers |-> headers, body |-> body, listing |-> listing]

\* A response without headers of interest.
NoHeaders == [h \in {} |-> <<>>]

\* onRequest returned nothing: an exception left it.
Uncaught ==
    [status |-> 0, code |-> "UncaughtException", message |-> <<>>,
     resource |-> <<>>, headers |-> NoHeaders, body |-> "null",
     listing |-> NoListing]

\* URLSearchParams.get: the first value of the name, <<>> for null.
RECURSIVE QueryGet(_, _)
QueryGet(query, name) ==
    IF query = <<>> THEN <<>>
    ELSE IF Head(query)[1] = name THEN Head(query)[2]
    ELSE QueryGet(Tail(query), name)

\* handleListBucket: the path it hands to propfind.
ListSearchPath(ctx, query) ==
    LET prefix == QueryGet(query, <<"prefix">>)
        bucketPath == IF ctx.bucket # <<>> THEN ctx.bucket \o <<"/">> ELSE <<"/">>
    IN  IF prefix # <<>> THEN ctx.bucket \o <<"/">> \o prefix ELSE bucketPath

\* handleHeadBucket: the path it hands to propfind.
BucketPath(ctx) == IF ctx.bucket # <<>> THEN ctx.bucket \o <<"/">> ELSE <<"/">>

\* A faulty onRequest that goes on whatever verifySignature returned.
SignatureVerdictUnchecked(result) ==
    IF result.threw THEN Uncaught ELSE NoResponse

\* onRequest after verifySignature: the response it returns at once, or
\* NoResponse when it goes on to parseS3Request.  An exception of
\* verifySignature leaves onRequest: nothing catches it there.
SignatureVerdict(result) ==
    IF result.threw THEN Uncaught
    ELSE IF ~result.valid
    THEN (IF Includes(result.error, "access key") THEN InvalidAccessKeyId
          ELSE SignatureDoesNotMatch)
    ELSE NoResponse

\* The headers of a WebDAV response that the handlers read; an absent
\* header is outside the domain.
ForwardedHeaders == {"content-type", "content-length", "last-modified", "etag"}

UpstreamHeaderValue ==
    [h \in ForwardedHeaders |->
        IF h = "content-type" THEN <<"image/jpeg">>
        ELSE IF h = "content-length" THEN <<"42">>
        ELSE IF h = "last-modified" THEN <<"Wed, 01 Jan 2020 00:00:00 GMT">>
        ELSE <<"\"abc\"">>]

UpstreamHeaders ==
    {[h \in present |-> UpstreamHeaderValue[h]] :
        present \in {{}, {"content-type", "content-length"}, {"etag"},
                     ForwardedHeaders}}

\* handleGetObject and handleHeadObject: the headers of the 200 response
\* (the request id is left out).
ObjectHeaders(upstream) ==
    [h \in {"content-type", "content-length"}
            \cup (DOMAIN upstream \cap {"last-modified", "etag"}) |->
        IF h \in DOMAIN upstream THEN upstream[h]
        ELSE IF h = "content-type" THEN <<"application/octet-stream">>
        ELSE <<"0">>]

\* A faulty handleHeadObject that forwards the body as handleGetObject does.
HeadObjectResponseWithBody(ctx, status, upstream) ==
    IF status = 0 THEN InternalError(FetchFailed)
    ELSE IF ~Ok(status)
    THEN (IF status = 404 THEN NoSuchKey(ctx.key)
          ELSE InternalError(<<"WebDAV HEAD failed: ", ToString(status)>>))
    ELSE Success(200, ObjectHeaders(upstream), "upstream", NoListing)

\* The responses of the handlers to the status of their WebDAV call; a
\* failed fetch (0) throws up to the catch of onRequest.
GetObjectResponse(ctx, status, upstream) ==
    IF status = 0 THEN InternalError(FetchFailed)
    ELSE IF ~Ok(status)
    THEN (IF status = 404 THEN NoSuchKey(ctx.key)
          ELSE InternalError(<<"WebDAV error: ", ToString(status)>>))
    ELSE Success(200, ObjectHeaders(upstream), "upstream", NoListing)

HeadObjectResponse(ctx, status, upstream) ==
    IF status = 0 THEN InternalError(FetchFailed)
    ELSE IF ~Ok(status)
    THEN (IF status = 404 THEN NoSuchKey(ctx.key)
          ELSE InternalError(<<"WebDAV HEAD failed: ", ToString(status)>>))
    ELSE Success(200, ObjectHeaders(upstream), "null", NoListing)

\* The ETag handlePutObject makes up.
FreshETag == [h \in {"etag"} |-> <<"\"uuid\"">>]

PutObjectResponse(status) ==
    IF status = 0 THEN InternalError(FetchFailed)
    ELSE IF ~Ok(status) /\ status # 201 /\ status # 204
    THEN InternalError(<<"WebDAV PUT failed: ", ToString(status)>>)
    ELSE Success(200, FreshETag, "null", NoListing)

\* A faulty handleDeleteObject that takes an absent object for a failure.
DeleteObjectResponseStrict(status) ==
    IF status = 0 THEN InternalError(FetchFailed)
    ELSE IF ~Ok(status)
    THEN InternalError(<<"WebDAV DELETE failed: ", ToString(status)>>)
    ELSE Success(204, NoHeaders, "null", NoListing)

DeleteObjectResponse(status) ==
    IF status = 0 THEN InternalError(FetchFailed)
    ELSE IF ~Ok(status) /\ status # 404
    THEN InternalError(<<"WebDAV DELETE failed: ", ToString(status)>>)
    ELSE Success(204, NoHeaders, "null", NoListing)

\* The origins an href of a PROPFIND answer can start with.
Origins == {"https://dav.example", "http://dav.example"}

\* handleListBucket: the path of an href, which is a full URL (new
\* URL(href).pathname), an absolute path, or a relative path.
UrlPath(href) ==
    IF href # <<>> /\ Head(href) \in Origins
    THEN (IF Tail(href) = <<>> THEN <<"/">> ELSE Tail(href))
    ELSE IF StartsWith(href, <<"/">>) THEN href
    ELSE <<"/">> \o href

\* handleListBucket: the key of a resource, with the leading slash and the
\* bucket name removed.
ResourceKey(ctx, resource) ==
    LET urlPath == UrlPath(resource.href)
        key == IF StartsWith(urlPath, <<"/">>) THEN Tail(urlPath) ELSE urlPath
    IN  IF StartsWith(key, ctx.bucket \o <<"/">>)
        THEN SubSeq(key, Len(ctx.bucket) + 2, Len(key))
        ELSE key

\* handleListBucket: the key of a directory ends with a slash.
DirKey(key) ==
    IF key # <<>> /\ key[Len(key)] = "/" THEN key ELSE key \o <<"/">>

\* A faulty seenPrefixes that remembers nothing.
SeenPrefixNever(commonPrefixes, dirKey) == FALSE

\* seenPrefixes.has(dirKey)
SeenPrefix(commonPrefixes, dirKey) ==
    \E i \in 1..Len(commonPrefixes) : commonPrefixes[i].prefix = dirKey

\* The S3Object of a resource that is no collection.
S3Object(key, resource) ==
    [key |-> key, etag |-> resource.etag, storageClass |-> "STANDARD"]

\* handleListBucket: the loop over childResources, which adds to contents
\* and commonPrefixes.
RECURSIVE TranslateResources(_, _, _, _, _)
TranslateResources(ctx, delimiter, childResources, contents, commonPrefixes) ==
    IF childResources = <<>>
    THEN [contents |-> contents, commonPrefixes |-> commonPrefixes]
    ELSE IF delimiter # <<>> /\ Head(childResources).isCollection
    THEN TranslateResources(ctx, delimiter, Tail(childResources), contents,
            IF SeenPrefix(commonPrefixes,
                          DirKey(ResourceKey(ctx, Head(childResources))))
            THEN commonPrefixes
            ELSE Append(commonPrefixes,
                    [prefix |-> DirKey(ResourceKey(ctx, Head(childResources)))]))
    ELSE IF ~Head(childResources).isCollection
    THEN TranslateResources(ctx, delimiter, Tail(childResources),
            Append(contents,
                   S3Object(ResourceKey(ctx, Head(childResources)),
                            Head(childResources))),
            commonPrefixes)
    ELSE TranslateResources(ctx, delimiter, Tail(childResources), contents,
                            commonPrefixes)

\* contents.sort((a, b) => a.key.localeCompare(b.key))
SortContents(contents) ==
    LET entries == [i \in 1..Len(contents) |-> <<contents[i].key, contents[i]>>]
        sorted == SortByLocale(entries)
    IN  [i \in 1..Len(contents) |-> sorted[i][2]]

\* max-keys when the query has none.
DefaultMaxKeys == 1000

\* A number of JavaScript: an integer, or NaN.
Number(n) == [nan |-> FALSE, value |-> n]

NaN == [nan |-> TRUE, value |-> 0]

\* The value of a decimal digit, -1 for any other token.
DigitValue(t) ==
    IF \E d \in 1..Len(Digits) : Digits[d] = t
    THEN (CHOOSE d \in 1..Len(Digits) : Digits[d] = t) - 1
    ELSE -1

\* The number the leading digits of str stand for, after acc.
RECURSIVE ParseDigits(_, _)
ParseDigits(str, acc) ==
    IF str = <<>> \/ DigitValue(Head(str)) < 0 THEN acc
    ELSE ParseDigits(Tail(str), 10 * acc + DigitValue(Head(str)))

\* parseInt(str, 10): leading whitespace, a sign, and the digits up to
\* the first token that is none; NaN without a digit.
parseInt(str) ==
    LET text == TrimLeft(str)
        hasSign == text # <<>> /\ Head(text) \in {"-", "+"}
        digits == IF hasSign THEN Tail(text) ELSE text
    IN  IF digits = <<>> \/ DigitValue(Head(digits)) < 0 THEN NaN
        ELSE Number((IF hasSign /\ Head(text) = "-" THEN -1 ELSE 1)
                    * ParseDigits(digits, 0))

\* handleListBucket: maxKeysStr ? parseInt(maxKeysStr, 10) : 1000
MaxKeys(query) ==
    IF QueryGet(query, <<"max-keys">>) # <<>>
    THEN parseInt(QueryGet(query, <<"max-keys">>))
    ELSE Number(DefaultMaxKeys)

\* Array.prototype.slice(0, n): NaN counts as 0, and a negative n counts
\* from the end of the list.
SliceTo(list, n) ==
    SubSeq(list, 1,
           IF n.nan THEN 0
           ELSE IF n.value < 0
           THEN (IF Len(list) + n.value < 0 THEN 0 ELSE Len(list) + n.value)
           ELSE IF n.value < Len(list) THEN n.value ELSE Len(list))

\* contents.length > maxKeys: FALSE for NaN.
GreaterThan(length, n) == ~n.nan /\ length > n.value

\* handleListBucket after propfind returned resources: the
\* ListBucketResult.
ListBucketResult(ctx, delimiter, maxKeys, resources) ==
    LET parts == TranslateResources(ctx, delimiter,
                    IF resources = <<>> THEN <<>> ELSE Tail(resources),
                    <<>>, <<>>)
    IN  [contents |-> SliceTo(SortContents(parts.contents), maxKeys),
         commonPrefixes |-> parts.commonPrefixes,
         isTruncated |-> GreaterThan(Len(parts.contents), maxKeys)]

\* A response element of a multistatus body: href is <<>> when the element
\* has no href element, hasProp is FALSE when it has no prop element.
Entry(href, hasProp, isCollection, etag) ==
    [href |-> href, hasProp |-> hasProp, isCollection |-> isCollection,
     etag |-> etag]

\* parsePropfindResponse: the loop over the response elements.  threw
\* stands for the URIError of decodeURIComponent, which nothing in the
\* parser or in propfind catches.
RECURSIVE ParseEntries(_, _)
ParseEntries(entries, resources) ==
    IF entries = <<>> THEN [threw |-> FALSE, resources |-> resources]
    ELSE IF Head(entries).href = <<>> THEN ParseEntries(Tail(entries), resources)
    ELSE IF ~decodeURIComponent(Head(entries).href).ok
    THEN [threw |-> TRUE, resources |-> <<>>]
    ELSE IF ~Head(entries).hasProp THEN ParseEntries(Tail(entries), resources)
    ELSE ParseEntries(Tail(entries),
            Append(resources,
                   [href |-> decodeURIComponent(Head(entries).href).str,
                    isCollection |-> Head(entries).isCollection,
                    etag |-> Head(entries).etag]))

parsePropfindResponse(xml) == ParseEntries(xml, <<>>)

\* WebDAVClient.propfind: what it returns for a status that is ok or 404.
Propfind(status, resources) == IF status = 404 THEN <<>> ELSE resources

ListHeaders == [h \in {"content-type"} |-> <<"application/xml">>]

\* handleListBucket: propfind throws for a failed fetch and for a status
\* that is neither ok nor 404, and handleListBucket catches it.
ListBucketResponse(ctx, query, status, xml) ==
    IF status = 0 \/ (~Ok(status) /\ status # 404)
    THEN InternalError(<<"Failed to list directory">>)
    ELSE IF status # 404 /\ parsePropfindResponse(xml).threw
    THEN InternalError(<<"Failed to list directory">>)
    ELSE Success(200, ListHeaders, "ListBucketResult",
                 ListBucketResult(ctx, QueryGet(query, <<"delimiter">>),
                                  MaxKeys(query),
                                  Propfind(status,
                                           parsePropfindResponse(xml).resources)))

\* handleHeadBucket: resources is the number of resources propfind returned.
HeadBucketResponse(ctx, status, resources) ==
    IF Ok(status) /\ resources > 0
    THEN Success(200, NoHeaders, "null", NoListing)
    ELSE NoSuchBucket(ctx.bucket)

-----------------------------------------------------------------------------
(* The requests that reach the gateway.                                    *)

IncompleteEnv == [ExampleEnv EXCEPT !.WEBDAV_PASSWORD = <<>>]

GatewayEnvs == {ExampleEnv, OtherEnv, IncompleteEnv}

GatewayMethods ==
    {<<"GET">>, <<"PUT">>, <<"DELETE">>, <<"HEAD">>, <<"POST">>, <<"OPTIONS">>,
     <<"patch">>}

GatewayPaths ==
    {<<"/">>, <<"/", "photos">>, <<"/", "bucket">>,
     <<"/", "photos", "/", "a.jpg">>,
     <<"/", "photos", "/", "2024", "/", "a.jpg">>,
     <<"/", "photos", "/", "%", "z", "z">>,
     <<"/", "photos", "/", "%", "E", "4">>}

GatewayQueries ==
    {<<>>,
     <<<<<<"prefix">>, <<"2024", "/">>>>>>,
     <<<<<<"delimiter">>, <<"/">>>>>>,
     <<<<<<"prefix">>, <<"photos", "/">>>>, <<<<"delimiter">>, <<"/">>>>>>,
     <<<<<<"max-keys">>, <<"1">>>>>>,
     <<<<<<"max-keys">>, <<"-", "1">>>>>>,
     <<<<<<"max-keys">>, <<"a">>>>>>}

\* The resources a PROPFIND answer is made of, as parsePropfindResponse
\* returns them: the directory itself, files, a deeper file, a directory
\* named with and without its slash, an href that is a full URL and one
\* that is a relative path.
Resource(href, isCollection, etag) ==
    [href |-> href, isCollection |-> isCollection, etag |-> etag]

Resources ==
    {Resource(<<"/", "bucket", "/", "photos", "/">>, TRUE, "e0"),
     Resource(<<"https://dav.example", "/", "bucket", "/", "photos", "/", "a.jpg">>, FALSE, "e1"),
     Resource(<<"bucket", "/", "photos", "/", "b.jpg">>, FALSE, "e2"),
     Resource(<<"/", "bucket", "/", "photos", "/", "2024", "/", "c.jpg">>, FALSE, "e3"),
     Resource(<<"/", "bucket", "/", "photos", "/", "2024", "/">>, TRUE, "e4"),
     Resource(<<"/", "bucket", "/", "photos", "/", "2024">>, TRUE, "e5"),
     Resource(<<"/", "bucket", "/", "B.txt">>, FALSE, "e6"),
     Resource(<<"/", "bucket", "/", "a.txt">>, FALSE, "e7")}

\* The answers of a PROPFIND: lists of distinct resources.
RECURSIVE ResourceLists(_)
ResourceLists(n) ==
    IF n = 0 THEN {<<>>}
    ELSE LET shorter == ResourceLists(n - 1)
         IN  shorter \cup
             {Append(list[1], list[2]) :
                list \in {l \in shorter \X Resources :
                            /\ Len(l[1]) = n - 1
                            /\ \A i \in 1..Len(l[1]) : l[1][i] # l[2]}}

GatewayAuth == {"ok", "absent", "bad-signature", "wrong-key"}

\* A request as the runtime hands it to onRequest; body is FALSE for a null
\* request.body.
GatewayRequest(e, method, pathname, query, authVariant, hasBody) ==
    ForgedRequest(e, method, pathname, query, "amz",
                  <<"host", ";", "x-amz-date">>, authVariant,
                  CHOOSE i \in Instants : i.dateStamp = "20200101")
    @@ [body |-> hasBody]

-----------------------------------------------------------------------------
(* onRequest, step by step.                                                *)

Init ==
    /\ env \in GatewayEnvs
    /\ SignatureIdle
    /\ GatewayIdle
    /\ XmlIdle
    /\ PutIdle

\* The runtime calls onRequest with a request.
Arrive ==
    /\ pc = "idle"
    /\ \E method \in GatewayMethods, pathname \in GatewayPaths,
          query \in GatewayQueries, authVariant \in GatewayAuth,
          hasBody \in BOOLEAN :
        /\ hasBody => method \notin {<<"GET">>, <<"HEAD">>, <<"OPTIONS">>}
        /\ query # <<>> => method = <<"GET">>
        /\ QueryGet(query, <<"max-keys">>) # <<>> => pathname = <<"/", "bucket">>
        /\ inbound' = GatewayRequest(env, method, pathname, query, authVariant,
                                     hasBody)
    /\ pc' = "onRequest"
    /\ UNCHANGED <<env, sigVars, xmlVars, putVars, history, signatureResult, s3Request, invoked,
                   pending, calls, response>>

\* The CORS preflight.
Preflight ==
    /\ pc = "onRequest"
    /\ inbound.method = <<"OPTIONS">>
    /\ response' = Success(204, NoHeaders, "null", NoListing)
    /\ pc' = "done"
    /\ UNCHANGED <<env, sigVars, xmlVars, putVars, history, inbound, signatureResult, s3Request, invoked,
                   pending, calls>>

\* validateConfig throws.
ConfigurationError ==
    /\ pc = "onRequest"
    /\ inbound.method # <<"OPTIONS">>
    /\ ~validateConfig(env)
    /\ response' = InternalError(<<"Server configuration error">>)
    /\ pc' = "done"
    /\ UNCHANGED <<env, sigVars, xmlVars, putVars, history, inbound, signatureResult, s3Request, invoked,
                   pending, calls>>

\* await verifySignature(request, env), and the branch on its result.
VerifySignature ==
    /\ pc = "onRequest"
    /\ inbound.method # <<"OPTIONS">>
    /\ validateConfig(env)
    /\ signatureResult' = verifySignature(inbound, env)
    /\ response' = SignatureVerdict(signatureResult')
    /\ pc' = IF response' = NoResponse THEN "parseS3Request" ELSE "done"
    /\ UNCHANGED <<env, sigVars, xmlVars, putVars, history, inbound, s3Request, invoked, pending, calls>>

\* parseS3Request, then handleS3Operation up to the first await of the
\* handler it routes to.
HandleS3Operation ==
    /\ pc = "parseS3Request"
    /\ s3Request' = parseS3Request(inbound)
    /\ invoked' = TRUE
    /\ LET ctx == parseS3Request(inbound)
           dirs == ParentDirs(buildWebDAVPath(ctx.bucket, ctx.key))
       IN  IF ctx.operation = "Unknown"
           THEN /\ response' = MethodNotAllowed(UpperSeq(inbound.method))
                /\ pc' = "done"
                /\ pending' = <<>>
           ELSE IF ctx.operation = "PutObject" /\ ~inbound.body
           THEN /\ response' = InternalError(<<"Missing request body">>)
                /\ pc' = "done"
                /\ pending' = <<>>
           ELSE IF ctx.operation = "PutObject"
           THEN /\ response' = response
                /\ pending' = dirs
                /\ pc' = IF dirs = <<>> THEN "put" ELSE "head"
           ELSE response' = response /\ pc' = ctx.operation /\ pending' = <<>>
    /\ UNCHANGED <<env, sigVars, xmlVars, putVars, history, inbound, signatureResult, calls>>

\* The lists of resources the WebDAV server answers a PROPFIND with.
PropfindAnswers == ResourceLists(MaxResources)

\* The path of the base URL of a deployment on its server, without the
\* slash at its end.
BasePath(e) ==
    IF Head(e.WEBDAV_URL) = "https://dav.example/dav" THEN <<"/", "dav">>
    ELSE <<>>

\* The href a server writes for a resource of the deployment: a path from
\* the root of the server, so below the path of the base URL; a relative
\* href is left as it is.
ServedHref(e, href) ==
    IF Head(href) \in Origins THEN <<Head(href)>> \o BasePath(e) \o Tail(href)
    ELSE IF StartsWith(href, <<"/">>) THEN BasePath(e) \o href
    ELSE href

Served(e, resources) ==
    [i \in 1..Len(resources) |->
        [resources[i] EXCEPT !.href = ServedHref(e, resources[i].href)]]

\* The response element a server writes for a resource.
EntryOf(resource) ==
    Entry(resource.href, TRUE, resource.isCollection, resource.etag)

Entries(resources) == [i \in 1..Len(resources) |-> EntryOf(resources[i])]

\* Response elements that are malformed: one without href, one without
\* prop, one whose href ends in a '%' that starts no escape.
MalformedEntries ==
    {Entry(<<>>, TRUE, FALSE, "m0"),
     Entry(<<"/", "bucket", "/", "a.txt">>, FALSE, FALSE, "m1"),
     Entry(<<"/", "bucket", "/", "a.txt", "%">>, TRUE, FALSE, "m2")}

\* The most resources of a body that holds a malformed element as well.
MaxBesideMalformed == 2

\* The bodies of a multistatus answer for resources: their elements, and
\* for a short list also their elements with a malformed one after the
\* first.
Bodies(resources) ==
    {Entries(resources)} \cup
    IF resources # <<>> /\ Len(resources) <= MaxBesideMalformed
    THEN {<<EntryOf(Head(resources)), m>> \o Entries(Tail(resources)) :
            m \in MalformedEntries}
    ELSE {}

\* One fetch of the WebDAV client.
Call(method, path, status) ==
    [method |-> method, url |-> buildUrl(env, path), status |-> status]

WebDAVPath == buildWebDAVPath(s3Request.bucket, s3Request.key)

GetObject ==
    /\ pc = "GetObject"
    /\ \E status \in UpstreamStatuses, upstream \in UpstreamHeaders :
        /\ calls' = Append(calls, Call("GET", WebDAVPath, status)
                                   @@ [headers |-> upstream])
        /\ response' = GetObjectResponse(s3Request, status, upstream)
    /\ pc' = "done"
    /\ UNCHANGED <<env, sigVars, xmlVars, putVars, history, inbound, signatureResult, s3Request, invoked,
                   pending>>

HeadObject ==
    /\ pc = "HeadObject"
    /\ \E status \in UpstreamStatuses, upstream \in UpstreamHeaders :
        /\ calls' = Append(calls, Call("HEAD", WebDAVPath, status)
                                   @@ [headers |-> upstream])
        /\ response' = HeadObjectResponse(s3Request, status, upstream)
    /\ pc' = "done"
    /\ UNCHANGED <<env, sigVars, xmlVars, putVars, history, inbound, signatureResult, s3Request, invoked,
                   pending>>

\* The WebDAV server has deleted the resource of the URL, or has said that
\* there is none, in answer to an earlier request.
Absent(url) ==
    \E i \in 1..Len(history) : \E j \in 1..Len(history[i].calls) :
        /\ history[i].calls[j].method = "DELETE"
        /\ history[i].calls[j].url = url
        /\ (Ok(history[i].calls[j].status) \/ history[i].calls[j].status = 404)

\* What a DELETE comes back with: 404 for a resource that is absent,
\* unless the fetch fails.
DeleteStatuses(url) == IF Absent(url) THEN {0, 404} ELSE UpstreamStatuses

DeleteObject ==
    /\ pc = "DeleteObject"
    /\ \E status \in DeleteStatuses(buildUrl(env, WebDAVPath)) :
        /\ calls' = Append(calls, Call("DELETE", WebDAVPath, status))
        /\ response' = DeleteObjectResponse(status)
    /\ pc' = "done"
    /\ UNCHANGED <<env, sigVars, xmlVars, putVars, history, inbound, signatureResult, s3Request, invoked,
                   pending>>

\* ensureParentDirs: the HEAD of the next directory.
EnsureParentDirsHead ==
    /\ pc = "head"
    /\ \E status \in UpstreamStatuses :
        /\ calls' = Append(calls, Call("HEAD", Head(pending), status))
        /\ IF status = 0
           THEN /\ response' = InternalError(FetchFailed)
                /\ pc' = "done"
                /\ pending' = pending
           ELSE IF Ok(status)
           THEN /\ response' = response
                /\ pending' = Tail(pending)
                /\ pc' = IF Tail(pending) = <<>> THEN "put" ELSE "head"
           ELSE response' = response /\ pc' = "mkcol" /\ pending' = pending
    /\ UNCHANGED <<env, sigVars, xmlVars, putVars, history, inbound, signatureResult, s3Request, invoked>>

\* ensureParentDirs: the MKCOL of a directory whose HEAD was not ok; its
\* status is only logged.
EnsureParentDirsMkcol ==
    /\ pc = "mkcol"
    /\ \E status \in UpstreamStatuses :
        /\ calls' = Append(calls, Call("MKCOL", Head(pending), status))
        /\ IF status = 0
           THEN /\ response' = InternalError(FetchFailed)
                /\ pc' = "done"
                /\ pending' = pending
           ELSE /\ response' = response
                /\ pending' = Tail(pending)
                /\ pc' = IF Tail(pending) = <<>> THEN "put" ELSE "head"
    /\ UNCHANGED <<env, sigVars, xmlVars, putVars, history, inbound, signatureResult, s3Request, invoked>>

PutObject ==
    /\ pc = "put"
    /\ \E status \in UpstreamStatuses :
        /\ calls' = Append(calls, Call("PUT", WebDAVPath, status))
        /\ response' = PutObjectResponse(status)
    /\ pc' = "done"
    /\ UNCHANGED <<env, sigVars, xmlVars, putVars, history, inbound, signatureResult, s3Request, invoked,
                   pending>>

ListBucket ==
    /\ pc = "ListBucket"
    /\ \E status \in UpstreamStatuses, resources \in PropfindAnswers :
        /\ Ok(status) \/ resources = <<>>
        /\ \E xml \in Bodies(Served(env, resources)) :
            /\ calls' = Append(calls,
                    Call("PROPFIND", ListSearchPath(s3Request, inbound.query),
                         status)
                    @@ [xml |-> xml,
                        resources |-> parsePropfindResponse(xml).resources])
            /\ response' = ListBucketResponse(s3Request, inbound.query, status,
                                              xml)
    /\ pc' = "done"
    /\ UNCHANGED <<env, sigVars, xmlVars, putVars, history, inbound, signatureResult, s3Request, invoked,
                   pending>>

HeadBucket ==
    /\ pc = "HeadBucket"
    /\ \E status \in UpstreamStatuses, resources \in 0..MaxResources :
        /\ calls' = Append(calls, Call("PROPFIND", BucketPath(s3Request), status))
        /\ response' = HeadBucketResponse(s3Request, status, resources)
    /\ pc' = "done"
    /\ UNCHANGED <<env, sigVars, xmlVars, putVars, history, inbound, signatureResult, s3Request, invoked,
                   pending>>

\* The client sends the DELETE request it has an answer to once more; the
\* runtime calls onRequest with it.
Repeat ==
    /\ pc = "done"
    /\ s3Request.operation = "DeleteObject"
    /\ calls # <<>>
    /\ Len(history) < MaxRepeats
    /\ history' = Append(history, [calls |-> calls, response |-> response])
    /\ pc' = "onRequest"
    /\ signatureResult' = NoResult
    /\ s3Request' = NoS3Request
    /\ invoked' = FALSE
    /\ pending' = <<>>
    /\ calls' = <<>>
    /\ response' = NoResponse
    /\ UNCHANGED <<env, sigVars, xmlVars, putVars, inbound>>

Next ==
    \/ Arrive
    \/ Preflight
    \/ ConfigurationError
    \/ VerifySignature
    \/ HandleS3Operation
    \/ GetObject
    \/ HeadObject
    \/ DeleteObject
    \/ EnsureParentDirsHead
    \/ EnsureParentDirsMkcol
    \/ PutObject
    \/ ListBucket
    \/ HeadBucket
    \/ Repeat

Spec == Init /\ [][Next]_vars

-----------------------------------------------------------------------------
(* Properties of the gateway, under Spec.                                  *)

\* verifySignature has returned to onRequest that the request is not valid.
ReturnedInvalid ==
    /\ signatureResult # NoResult
    /\ ~signatureResult.valid
    /\ ~signatureResult.threw

\* C1: the gateway makes no WebDAV call and does not call
\* handleS3Operation unless verifySignature has returned valid for the
\* request; when it has returned invalid, the answer is an error response
\* (403) and no call is ever made.
C1_NoCallUnlessVerified ==
    /\ (calls # <<>> \/ invoked \/ pc \notin {"idle", "onRequest", "done"}) =>
            /\ signatureResult.valid
            /\ inbound.method # <<"OPTIONS">>
            /\ validateConfig(env)
    /\ ReturnedInvalid =>
            /\ pc = "done"
            /\ ~invoked
            /\ calls = <<>>
            /\ response \in {InvalidAccessKeyId, SignatureDoesNotMatch}

C1_Witness ==
    /\ ReturnedInvalid
    /\ inbound.method = <<"PUT">>
    /\ inbound.body
    /\ signatureResult.error = ErrSignatureMismatch
    /\ response = SignatureDoesNotMatch
    /\ calls = <<>>

\* C10: verifySignature never throws: onRequest answers every request that
\* is not accepted, one with an invalid percent-escape in its path
\* included, with a 403 error response.
C10_NeverThrows ==
    (pc = "done" /\ inbound.method # <<"OPTIONS">> /\ validateConfig(env)
        /\ ~signatureResult.valid) =>
        /\ ~signatureResult.threw
        /\ response.status = 403

\* What verifySignature found that a response could give away: its reason,
\* and the diagnostic of a signature mismatch.
VerifierInternals ==
    {signatureResult.error, signatureResult.canonicalRequest,
     signatureResult.stringToSign, signatureResult.calculatedSignature}

\* The response is one of the two fixed 403 responses, and nothing of it is
\* taken from the result of verifySignature.
GenericForbidden ==
    /\ response.status = 403
    /\ response \in {InvalidAccessKeyId, SignatureDoesNotMatch}
    /\ response.resource = <<>>
    /\ response.message \notin VerifierInternals

\* C11: every request whose verification fails is answered with a 403
\* whose body carries only a fixed code and message (InvalidAccessKeyId or
\* SignatureDoesNotMatch); the reason of verifySignature and its
\* diagnostic of a signature mismatch are not in the response.
C11_FailureAnsweredGenerically ==
    (pc = "done" /\ inbound.method # <<"OPTIONS">> /\ validateConfig(env)
        /\ signatureResult # NoResult /\ ~signatureResult.valid) =>
        GenericForbidden

\* What holds: the failures verifySignature returns are answered so.
ReturnedFailureAnsweredGenerically == ReturnedInvalid => GenericForbidden

\* The operation the table gives for a method and a key.
OperationOf(method, key) ==
    IF method = <<"GET">> /\ key = <<>> THEN "ListBucket"
    ELSE IF method = <<"GET">> THEN "GetObject"
    ELSE IF method = <<"PUT">> THEN "PutObject"
    ELSE IF method = <<"DELETE">> THEN "DeleteObject"
    ELSE IF method = <<"HEAD">> /\ key = <<>> THEN "HeadBucket"
    ELSE IF method = <<"HEAD">> THEN "HeadObject"
    ELSE "Unknown"

\* C12: every request that gets past verification is classified by the
\* table: GET with an empty key is ListBucket, GET with a key GetObject,
\* PUT PutObject, DELETE DeleteObject, HEAD with a key HeadObject, HEAD
\* with an empty key HeadBucket; every other method is Unknown, and is
\* answered with 405 MethodNotAllowed without any WebDAV call.
C12_Classification ==
    invoked =>
        /\ s3Request.operation =
                OperationOf(UpperSeq(inbound.method), s3Request.key)
        /\ (s3Request.key = <<>>) =
                (Len(FilterBoolean(Split(inbound.pathname, "/"))) <= 1)
        /\ UpperSeq(inbound.method) \notin
                {<<"GET">>, <<"PUT">>, <<"DELETE">>, <<"HEAD">>} =>
                /\ pc = "done"
                /\ calls = <<>>
                /\ response.status = 405
                /\ response.code = "MethodNotAllowed"

C12_Witness ==
    /\ invoked
    /\ inbound.method = <<"patch">>
    /\ s3Request.operation = "Unknown"
    /\ response = MethodNotAllowed(<<"PATCH">>)
    /\ calls = <<>>
    /\ pc = "done"

\* The MKCOLs that failed with a status other than 405.
FailedMkcols ==
    {i \in 1..Len(calls) :
        /\ calls[i].method = "MKCOL"
        /\ ~Ok(calls[i].status)
        /\ calls[i].status # 405}

\* C13: in a PutObject, when the MKCOL of a missing directory fails with a
\* status other than 405, the operation stops there with InternalError:
\* no call follows the MKCOL, and so no PUT of the object.
C13_MkcolFailureAborts ==
    \A i \in FailedMkcols :
        /\ i = Len(calls)
        /\ pc = "done"
        /\ response.status = 500
        /\ response.code = "InternalError"

\* The URLs of the ancestors c1/, c1/c2/, ..., c1/.../c(n-1)/ of the path
\* of the object, shallowest first.
AncestorUrls ==
    LET parts == FilterBoolean(Split(WebDAVPath, "/"))
    IN  [k \in 1..(IF parts = <<>> THEN 0 ELSE Len(parts) - 1) |->
            buildUrl(env, Join(SubSeq(parts, 1, k), <<"/">>) \o <<"/">>)]

\* The calls are, ancestor by ancestor, one HEAD, then one MKCOL when the
\* HEAD was answered without success, and in the end the PUT of the
\* object; nothing follows a call whose fetch failed.
RECURSIVE InPutOrder(_, _)
InPutOrder(cs, ancestors) ==
    IF cs = <<>> THEN TRUE
    ELSE IF ancestors = <<>>
    THEN /\ Len(cs) = 1
         /\ cs[1].method = "PUT"
         /\ cs[1].url = buildUrl(env, WebDAVPath)
    ELSE /\ cs[1].method = "HEAD"
         /\ cs[1].url = Head(ancestors)
         /\ IF Ok(cs[1].status) THEN InPutOrder(Tail(cs), Tail(ancestors))
            ELSE IF cs[1].status = 0 \/ Len(cs) = 1 THEN Len(cs) = 1
            ELSE /\ cs[2].method = "MKCOL"
                 /\ cs[2].url = Head(ancestors)
                 /\ IF cs[2].status = 0 THEN Len(cs) = 2
                    ELSE InPutOrder(Tail(Tail(cs)), Tail(ancestors))

Puts == {i \in 1..Len(calls) : calls[i].method = "PUT"}

FailedFetches == {i \in 1..Len(calls) : calls[i].status = 0}

PutObjectInvoked == invoked /\ s3Request.operation = "PutObject"

\* C14 as stated: in a PutObject the ancestors are probed shallowest
\* first, each with one HEAD; the MKCOL of an ancestor comes only after
\* its HEAD was answered without success and before the next ancestor is
\* probed; exactly one PUT is issued, after the HEAD and MKCOL of every
\* ancestor.
C14_OrderedWithOnePut ==
    PutObjectInvoked =>
        /\ InPutOrder(calls, AncestorUrls)
        /\ pc = "done" => Cardinality(Puts) = 1

\* C14 amended: the order is as stated, and at most one PUT is issued, as
\* the last call; exactly one is issued when the request has a body and
\* no fetch of an ancestor's HEAD or MKCOL fails.  A request without a
\* body is answered before any call, and a failed fetch ends the
\* operation before the PUT.
C14_OrderedWithAtMostOnePut ==
    PutObjectInvoked =>
        /\ InPutOrder(calls, AncestorUrls)
        /\ Cardinality(Puts) <= 1
        /\ Puts \subseteq {Len(calls)}
        /\ ~inbound.body => calls = <<>> /\ pc = "done"
        /\ (pc = "done" /\ inbound.body /\ FailedFetches \subseteq Puts) =>
                Cardinality(Puts) = 1

C14_Witness ==
    /\ PutObjectInvoked
    /\ pc = "done"
    /\ Len(calls) = 4
    /\ calls[1].method = "HEAD" /\ calls[1].status = 404
    /\ calls[2].method = "MKCOL" /\ calls[2].status = 201
    /\ calls[2].url = calls[1].url
    /\ calls[3].method = "HEAD" /\ calls[3].status = 200
    /\ calls[3].url # calls[1].url
    /\ calls[4].method = "PUT"
    /\ response.status = 200

DeleteObjectAnswered ==
    invoked /\ s3Request.operation = "DeleteObject" /\ pc = "done"

\* C15: DeleteObject makes exactly one WebDAV call, the DELETE of the
\* object; it answers 204 when the status of the DELETE is a success or
\* 404, and InternalError (500) for every other status and for a fetch
\* that fails.  Deleting a key twice in a row is answered 204 both times:
\* the server answers the second DELETE with 404, the object being gone.
C15_DeleteIdempotent ==
    DeleteObjectAnswered =>
        /\ Len(calls) = 1
        /\ calls[1].method = "DELETE"
        /\ calls[1].url = buildUrl(env, WebDAVPath)
        /\ (Ok(calls[1].status) \/ calls[1].status = 404) =>
                response.status = 204 /\ response.code = "OK"
        /\ ~(Ok(calls[1].status) \/ calls[1].status = 404) =>
                response.status = 500 /\ response.code = "InternalError"
        /\ (history # <<>> /\ history[1].response.status = 204
                /\ calls[1].status # 0) =>
                response.status = 204

C15_Witness ==
    /\ DeleteObjectAnswered
    /\ Len(history) = 1
    /\ history[1].calls[1].status = 204
    /\ history[1].response.status = 204
    /\ calls[1].url = history[1].calls[1].url
    /\ calls[1].status = 404
    /\ response.status = 204

ObjectReadAnswered ==
    invoked /\ s3Request.operation \in {"GetObject", "HeadObject"} /\ pc = "done"

\* C16: GetObject and HeadObject each make exactly one WebDAV call, a GET
\* or a HEAD on the path bucket/key.  A 404 is answered with NoSuchKey
\* (404), every other status without success with InternalError (500), and
\* a success with 200 and the Content-Type, Content-Length, Last-Modified
\* and ETag headers of the WebDAV response, with its body for GetObject
\* and without a body for HeadObject.
C16_ObjectReadMapping ==
    ObjectReadAnswered =>
        /\ Len(calls) = 1
        /\ calls[1].method =
                (IF s3Request.operation = "GetObject" THEN "GET" ELSE "HEAD")
        /\ calls[1].url =
                buildUrl(env, s3Request.bucket \o <<"/">> \o s3Request.key)
        /\ calls[1].status = 404 =>
                /\ response.status = 404
                /\ response.code = "NoSuchKey"
        /\ (~Ok(calls[1].status) /\ calls[1].status # 404) =>
                /\ response.status = 500
                /\ response.code = "InternalError"
        /\ Ok(calls[1].status) =>
                /\ response.status = 200
                /\ response.code = "OK"
                /\ \A h \in DOMAIN calls[1].headers :
                        /\ h \in DOMAIN response.headers
                        /\ response.headers[h] = calls[1].headers[h]
                /\ DOMAIN response.headers \cap {"last-modified", "etag"}
                        \subseteq DOMAIN calls[1].headers
                /\ response.body =
                        (IF s3Request.operation = "GetObject" THEN "upstream"
                         ELSE "null")

C16_Witness ==
    /\ ObjectReadAnswered
    /\ s3Request.operation = "HeadObject"
    /\ calls[1].status = 200
    /\ DOMAIN calls[1].headers = ForwardedHeaders
    /\ response.status = 200
    /\ response.headers = UpstreamHeaderValue
    /\ response.body = "null"

\* A request on the bucket itself has been answered, and the one PROPFIND
\* it made was on the directory of the bucket.
BucketRequestAnswered ==
    /\ invoked
    /\ s3Request.operation \in {"ListBucket", "HeadBucket"}
    /\ s3Request.bucket # <<>>
    /\ pc = "done"
    /\ Len(calls) = 1
    /\ calls[1].method = "PROPFIND"
    /\ calls[1].url = buildUrl(env, s3Request.bucket \o <<"/">>)

\* C17: when the directory of the bucket is absent on the WebDAV server,
\* a request on the bucket is answered with 404 NoSuchBucket: a ListBucket
\* or a HeadBucket whose PROPFIND is answered with 404 returns 404
\* NoSuchBucket, not a 200 listing.
C17_AbsentBucketNotFound ==
    (BucketRequestAnswered /\ calls[1].status = 404) =>
        /\ response.status = 404
        /\ response.code = "NoSuchBucket"

\* What holds: HeadBucket answers so.
HeadBucketAbsentNotFound ==
    (BucketRequestAnswered /\ s3Request.operation = "HeadBucket"
        /\ calls[1].status = 404) =>
        response = NoSuchBucket(s3Request.bucket)

\* A ListBucket has been answered with a listing.
ListAnswered ==
    /\ invoked
    /\ s3Request.operation = "ListBucket"
    /\ pc = "done"
    /\ response.status = 200

\* The resources the PROPFIND returned, without the first.
Children ==
    IF calls[1].resources = <<>> THEN <<>> ELSE Tail(calls[1].resources)

Contents == response.listing.contents

CommonPrefixes == response.listing.commonPrefixes

Delimited == QueryGet(inbound.query, <<"delimiter">>) # <<>>

\* contents and commonPrefixes as the loop over the children leaves them,
\* before the sort and the cut at max-keys.
Translated ==
    TranslateResources(s3Request, QueryGet(inbound.query, <<"delimiter">>),
                       Children, <<>>, <<>>)

\* The entries of contents that come from a resource: in the response,
\* and after the loop.
ContentsOf(r) == {i \in 1..Len(Contents) : Contents[i].etag = r.etag}

TranslatedOf(r) ==
    {i \in 1..Len(Translated.contents) : Translated.contents[i].etag = r.etag}

\* The prefix of a collection, and where commonPrefixes holds a prefix.
PrefixOf(r) == DirKey(ResourceKey(s3Request, r))

PrefixIndex(p) == {i \in 1..Len(CommonPrefixes) : CommonPrefixes[i].prefix = p}

\* The first child that is a collection with the prefix.
FirstSeen(p) ==
    CHOOSE i \in 1..Len(Children) :
        /\ Children[i].isCollection /\ PrefixOf(Children[i]) = p
        /\ \A j \in 1..(i - 1) :
                ~(Children[j].isCollection /\ PrefixOf(Children[j]) = p)

\* C18: in every ListBucket result the first resource of the PROPFIND
\* contributes nothing, and every other resource has exactly one outcome:
\* a collection, with a delimiter, contributes to commonPrefixes only; a
\* resource that is no collection contributes one entry to contents only;
\* a collection without a delimiter is skipped.  So contents and
\* commonPrefixes are disjoint, and commonPrefixes holds each prefix at
\* most once, in the order in which the prefixes were first seen.  (This
\* is about contents as the loop fills it; the cut at max-keys comes
\* after, and takes entries away only.)
C18_OneOutcomePerResource ==
    ListAnswered =>
        /\ \A i \in 1..Len(Children) :
                IF Children[i].isCollection
                THEN /\ TranslatedOf(Children[i]) = {}
                     /\ ContentsOf(Children[i]) = {}
                     /\ Cardinality(PrefixIndex(PrefixOf(Children[i]))) =
                            (IF Delimited THEN 1 ELSE 0)
                ELSE /\ Cardinality(TranslatedOf(Children[i])) = 1
                     /\ \A j \in TranslatedOf(Children[i]) :
                            Translated.contents[j].key =
                                ResourceKey(s3Request, Children[i])
                     /\ Cardinality(ContentsOf(Children[i])) <= 1
        /\ Len(Translated.contents) =
                Cardinality({i \in 1..Len(Children) : ~Children[i].isCollection})
        /\ \A i \in 1..Len(Contents) :
                \E j \in 1..Len(Translated.contents) :
                    Contents[i] = Translated.contents[j]
        /\ CommonPrefixes = Translated.commonPrefixes
        /\ \A j \in 1..Len(CommonPrefixes) :
                /\ Delimited
                /\ \E i \in 1..Len(Children) :
                        /\ Children[i].isCollection
                        /\ PrefixOf(Children[i]) = CommonPrefixes[j].prefix
        /\ \A a, b \in 1..Len(CommonPrefixes) :
                a < b => FirstSeen(CommonPrefixes[a].prefix)
                            < FirstSeen(CommonPrefixes[b].prefix)
        /\ {Translated.contents[i].key : i \in 1..Len(Translated.contents)}
                \cap {CommonPrefixes[j].prefix : j \in 1..Len(CommonPrefixes)} = {}

C18_Witness ==
    /\ ListAnswered
    /\ Delimited
    /\ Len(Children) = 3
    /\ Cardinality({i \in 1..3 : Children[i].isCollection}) = 2
    /\ \A i \in 1..3 : Children[i].isCollection =>
            PrefixOf(Children[i]) = <<"photos", "/", "2024", "/">>
    /\ Len(CommonPrefixes) = 1
    /\ Len(Contents) = 1
    /\ ~calls[1].resources[1].isCollection

RequestPrefix == QueryGet(inbound.query, <<"prefix">>)

\* The places of a delimiter in a key after the prefix of the request.
DelimitersAfterPrefix(key) ==
    IF StartsWith(key, RequestPrefix)
    THEN {k \in (Len(RequestPrefix) + 1)..Len(key) : key[k] = "/"}
    ELSE {}

\* The key up to and with its first delimiter after the prefix.
Folded(key) ==
    SubSeq(key, 1, CHOOSE k \in DelimitersAfterPrefix(key) :
                        \A l \in DelimitersAfterPrefix(key) : k <= l)

\* C19: with a delimiter, every resource whose key has a further
\* delimiter after the prefix contributes a common prefix, the key up to
\* that delimiter, and no object: with prefix photos/ and delimiter /, the
\* files photos/a.jpg and photos/b.jpg are in contents, and the deeper
\* file photos/2024/c.jpg is folded into the one common prefix
\* photos/2024/ and is not in contents.
C19_DeeperEntryFolded ==
    (ListAnswered /\ Delimited /\ s3Request.bucket # <<>>
        /\ QueryGet(inbound.query, <<"max-keys">>) = <<>>) =>
        \A i \in 1..Len(Children) :
            LET key == ResourceKey(s3Request, Children[i])
            IN  IF DelimitersAfterPrefix(key) # {}
                THEN /\ ContentsOf(Children[i]) = {}
                     /\ Cardinality(PrefixIndex(Folded(key))) = 1
                ELSE Children[i].isCollection
                        \/ Cardinality(ContentsOf(Children[i])) = 1

\* What the code answers in the example of C19: the deeper file is an
\* object like the two others, and there is no common prefix.
DeeperEntryListedAsObject ==
    /\ ListAnswered
    /\ RequestPrefix = <<"photos", "/">>
    /\ Delimited
    /\ Len(Children) = 3
    /\ \A i \in 1..3 : ~Children[i].isCollection
    /\ [i \in 1..3 |-> Contents[i].key] =
            << <<"photos", "/", "2024", "/", "c.jpg">>,
               <<"photos", "/", "a.jpg">>, <<"photos", "/", "b.jpg">> >>
    /\ CommonPrefixes = <<>>

\* C20: the contents of every ListBucket result are in ascending order of
\* the bytes of their keys, whatever the keys: with keys that mix upper
\* and lower case, B.txt comes before a.txt.
C20_ContentsInByteOrder ==
    ListAnswered =>
        \A i, j \in 1..Len(Contents) :
            i < j => codeUnitCompare(Contents[i].key, Contents[j].key) <= 0

\* What holds: the contents are in the order of localeCompare.
ContentsInLocaleOrder ==
    ListAnswered =>
        \A i, j \in 1..Len(Contents) :
            i < j => localeCompare(Contents[i].key, Contents[j].key) <= 0

\* The number of translated objects, and all of them in sorted order.
ObjectCount ==
    Cardinality({i \in 1..Len(Children) : ~Children[i].isCollection})

SortedObjects == SortContents(Translated.contents)

MaxKeysText == QueryGet(inbound.query, <<"max-keys">>)

\* The max-keys of the request when its text is an integer.
RequestedMaxKeys ==
    IF MaxKeysText = <<>> THEN 1000
    ELSE IF MaxKeysText = <<"1">> THEN 1
    ELSE -1

Min(a, b) == IF a < b THEN a ELSE b

Max(a, b) == IF a > b THEN a ELSE b

\* C21: for every max-keys of the request (1000 when it has none) and
\* every number N of translated objects, isTruncated is true exactly when
\* N is greater than max-keys, and contents is the first min(N, max-keys)
\* objects in sorted order (none when max-keys is below zero); the
\* common prefixes are neither counted nor cut.
C21_TruncatedAtMaxKeys ==
    (ListAnswered /\ MaxKeysText \in {<<>>, <<"1">>, <<"-", "1">>}) =>
        /\ response.listing.isTruncated = (ObjectCount > RequestedMaxKeys)
        /\ Contents =
                SubSeq(SortedObjects, 1, Max(0, Min(ObjectCount, RequestedMaxKeys)))
        /\ CommonPrefixes = Translated.commonPrefixes

\* What holds: the same for a max-keys that is absent or not below zero.
TruncatedAtNaturalMaxKeys ==
    (ListAnswered /\ MaxKeysText \in {<<>>, <<"1">>}) =>
        /\ response.listing.isTruncated = (ObjectCount > RequestedMaxKeys)
        /\ Contents = SubSeq(SortedObjects, 1, Min(ObjectCount, RequestedMaxKeys))
        /\ CommonPrefixes = Translated.commonPrefixes

\* What the code answers to max-keys=a: no object and isTruncated false,
\* whatever the number of objects.
NothingListedForNaN ==
    /\ ListAnswered
    /\ MaxKeysText = <<"a">>
    /\ ObjectCount = 2
    /\ Contents = <<>>
    /\ ~response.listing.isTruncated

-----------------------------------------------------------------------------
(* The XML of the responses.  A document is a sequence of tokens: a tag is  *)
(* one token, and text is made of characters and of the words amp; lt;     *)
(* gt; quot; apos; that follow the & of an entity.                         *)

\* The most tokens of a text handed to the generators.
MaxText == 3

\* A faulty escapeXml that replaces & last.
escapeXmlAmpersandLast(str) ==
    ReplaceAll(ReplaceAll(ReplaceAll(ReplaceAll(ReplaceAll(str,
        <<"<">>, <<"&", "lt;">>), <<">">>, <<"&", "gt;">>),
        <<"\"">>, <<"&", "quot;">>), <<"'">>, <<"&", "apos;">>),
        <<"&">>, <<"&", "amp;">>)

escapeXml(str) ==
    ReplaceAll(ReplaceAll(ReplaceAll(ReplaceAll(ReplaceAll(str,
        <<"&">>, <<"&", "amp;">>), <<"<">>, <<"&", "lt;">>),
        <<">">>, <<"&", "gt;">>), <<"\"">>, <<"&", "quot;">>),
        <<"'">>, <<"&", "apos;">>)

\* `${value}` for a number and for a boolean.
NumberText(n) == IF n.nan THEN "NaN" ELSE ToString(n.value)

BooleanText(b) == IF b THEN "true" ELSE "false"

generateErrorXml(code, message, resource, requestId) ==
    <<"<?xml?>", "<Error>", "<Code>">> \o escapeXml(code) \o <<"</Code>">>
    \o <<"<Message>">> \o escapeXml(message) \o <<"</Message>">>
    \o (IF resource # <<>>
        THEN <<"<Resource>">> \o escapeXml(resource) \o <<"</Resource>">>
        ELSE <<>>)
    \o (IF requestId # <<>>
        THEN <<"<RequestId>">> \o escapeXml(requestId) \o <<"</RequestId>">>
        ELSE <<>>)
    \o <<"</Error>">>

\* generateListBucketResultXml: the Contents and CommonPrefixes elements.
RECURSIVE ContentsXml(_)
ContentsXml(contents) ==
    IF contents = <<>> THEN <<>>
    ELSE <<"<Contents>", "<Key>">> \o escapeXml(Head(contents).key)
         \o <<"</Key>", "<LastModified>", "toISOString", "</LastModified>">>
         \o <<"<ETag>", "\"">> \o escapeXml(<<Head(contents).etag>>)
         \o <<"\"", "</ETag>", "<Size>", "size", "</Size>">>
         \o <<"<StorageClass>", Head(contents).storageClass, "</StorageClass>">>
         \o <<"</Contents>">> \o ContentsXml(Tail(contents))

RECURSIVE CommonPrefixesXml(_)
CommonPrefixesXml(commonPrefixes) ==
    IF commonPrefixes = <<>> THEN <<>>
    ELSE <<"<CommonPrefixes>", "<Prefix>">>
         \o escapeXml(Head(commonPrefixes).prefix)
         \o <<"</Prefix>", "</CommonPrefixes>">>
         \o CommonPrefixesXml(Tail(commonPrefixes))

generateListBucketResultXml(result) ==
    <<"<?xml?>", "<ListBucketResult>", "<Name>">> \o escapeXml(result.name)
    \o <<"</Name>", "<Prefix>">> \o escapeXml(result.prefix)
    \o <<"</Prefix>", "<Delimiter>">> \o escapeXml(result.delimiter)
    \o <<"</Delimiter>", "<MaxKeys>", NumberText(result.maxKeys), "</MaxKeys>">>
    \o <<"<IsTruncated>", BooleanText(result.isTruncated), "</IsTruncated>">>
    \o ContentsXml(result.contents) \o CommonPrefixesXml(result.commonPrefixes)
    \o <<"</ListBucketResult>">>

\* The characters of the texts: the five that escapeXml replaces, an
\* ordinary one, and the words that make a text look escaped already.
XmlCharacters == {"&", "<", ">", "\"", "'", "a", "amp;", "lt;"}

RECURSIVE XmlTexts(_)
XmlTexts(n) ==
    IF n = 0 THEN {<<>>}
    ELSE LET shorter == XmlTexts(n - 1)
         IN  shorter \cup {Append(t[1], t[2]) :
                            t \in {u \in shorter \X XmlCharacters :
                                        Len(u[1]) = n - 1}}

XmlInit ==
    /\ env = ExampleEnv
    /\ SignatureIdle
    /\ GatewayIdle
    /\ PutIdle
    /\ xmlInput \in XmlTexts(MaxText)
    /\ xmlOutput = NoXml

\* createErrorResponse makes the body of an error whose code, message and
\* resource are the text.
GenerateErrorXml ==
    /\ xmlOutput = NoXml
    /\ xmlOutput' = [kind |-> "Error",
                     doc |-> generateErrorXml(xmlInput, xmlInput, xmlInput,
                                              <<"uuid">>)]
    /\ UNCHANGED <<env, sigVars, gwVars, putVars, xmlInput>>

\* handleListBucket makes the body of a listing whose name, prefix,
\* delimiter, key and common prefix are the text.
GenerateListBucketResultXml ==
    /\ xmlOutput = NoXml
    /\ xmlOutput' =
        [kind |-> "ListBucketResult",
         doc |-> generateListBucketResultXml(
                    [name |-> xmlInput, prefix |-> xmlInput,
                     delimiter |-> xmlInput, maxKeys |-> Number(DefaultMaxKeys),
                     isTruncated |-> FALSE,
                     contents |-> <<[key |-> xmlInput, etag |-> "e1",
                                     storageClass |-> "STANDARD"]>>,
                     commonPrefixes |-> <<[prefix |-> xmlInput]>>])]
    /\ UNCHANGED <<env, sigVars, gwVars, putVars, xmlInput>>

XmlNext ==
    \/ GenerateErrorXml
    \/ GenerateListBucketResultXml

XmlSpec == XmlInit /\ [][XmlNext]_vars

\* What a standard XML parser makes of a text: the five entities decoded.
EntityOf(word) ==
    IF word = "amp;" THEN "&" ELSE IF word = "lt;" THEN "<"
    ELSE IF word = "gt;" THEN ">" ELSE IF word = "quot;" THEN "\""
    ELSE "'"

Entities == {"amp;", "lt;", "gt;", "quot;", "apos;"}

RECURSIVE DecodeEntities(_)
DecodeEntities(text) ==
    IF text = <<>> THEN <<>>
    ELSE IF Head(text) = "&" /\ Len(text) >= 2 /\ text[2] \in Entities
    THEN <<EntityOf(text[2])>> \o DecodeEntities(Tail(Tail(text)))
    ELSE <<Head(text)>> \o DecodeEntities(Tail(text))

\* No raw < > " ' in the text, and & only at the start of an entity.
WellEscaped(text) ==
    \A i \in 1..Len(text) :
        /\ text[i] \notin {"<", ">", "\"", "'"}
        /\ text[i] = "&" => (i < Len(text) /\ text[i + 1] \in Entities)

\* The texts of the elements with a tag in a document.
ElementTexts(doc, tag) ==
    {SubSeq(doc, i + 1, j - 1) : <<i, j>> \in
        {ij \in (1..Len(doc)) \X (1..Len(doc)) :
            /\ ij[1] < ij[2]
            /\ doc[ij[1]] = "<" \o tag \o ">"
            /\ doc[ij[2]] = "</" \o tag \o ">"
            /\ \A k \in (ij[1] + 1)..(ij[2] - 1) : doc[k] # "</" \o tag \o ">"}}

\* The elements that carry a key, prefix, name, delimiter, code or message.
EscapedElements(kind) ==
    IF kind = "Error"
    THEN {"Code", "Message"} \cup (IF xmlInput # <<>> THEN {"Resource"} ELSE {})
    ELSE {"Name", "Prefix", "Delimiter", "Key"}

\* C22: escapeXml leaves no raw < > " ' in a text and & only at the start
\* of one of the five entities, and decoding the entities gives the text
\* back, also for a text that holds &amp; or &lt; already; every key,
\* prefix, name, delimiter, code and message of a response goes through
\* escapeXml.
C22_EscapeRoundTrip ==
    xmlOutput # NoXml =>
        \A tag \in EscapedElements(xmlOutput.kind) :
            /\ ElementTexts(xmlOutput.doc, tag) # {}
            /\ \A text \in ElementTexts(xmlOutput.doc, tag) :
                    /\ WellEscaped(text)
                    /\ DecodeEntities(text) = xmlInput

C22_Witness ==
    /\ xmlOutput.kind = "ListBucketResult"
    /\ xmlInput = <<"&", "amp;", "<">>
    /\ ElementTexts(xmlOutput.doc, "Key") = {<<"&", "amp;", "amp;", "&", "lt;">>}

-----------------------------------------------------------------------------
(* The multistatus parser and malformed response elements.                 *)

\* The PROPFIND of a ListBucket on a bucket was answered with a multistatus
\* body.
MultistatusAnswered ==
    /\ invoked
    /\ s3Request.operation = "ListBucket"
    /\ s3Request.bucket # <<>>
    /\ pc = "done"
    /\ Ok(calls[1].status)

\* The elements of the body that are well-formed, as resources.
RECURSIVE WellFormed(_)
WellFormed(xml) ==
    IF xml = <<>> THEN <<>>
    ELSE IF Head(xml) \in MalformedEntries THEN WellFormed(Tail(xml))
    ELSE <<Resource(Head(xml).href, Head(xml).isCollection, Head(xml).etag)>>
         \o WellFormed(Tail(xml))

\* C23: a response element of a PROPFIND body that has no href, no prop
\* or an href with an invalid percent-escape is skipped; the other elements
\* of the body are returned and the ListBucket answers 200 with them.
C23_MalformedEntryDropped ==
    MultistatusAnswered =>
        /\ response.status = 200
        /\ calls[1].resources = WellFormed(calls[1].xml)
        /\ response.listing =
                ListBucketResult(s3Request, QueryGet(inbound.query, <<"delimiter">>),
                                 MaxKeys(inbound.query), WellFormed(calls[1].xml))

\* The same for bodies whose malformed element lacks the href or the prop.
MalformedWithoutEscapeDropped ==
    (/\ MultistatusAnswered
     /\ \A i \in 1..Len(calls[1].xml) :
            calls[1].xml[i].href = <<>> \/ decodeURIComponent(calls[1].xml[i].href).ok)
    => /\ response.status = 200
       /\ calls[1].resources = WellFormed(calls[1].xml)
       /\ response.listing =
                ListBucketResult(s3Request, QueryGet(inbound.query, <<"delimiter">>),
                                 MaxKeys(inbound.query), WellFormed(calls[1].xml))

\* A body with an element without prop between two sound ones is listed.
ElementWithoutPropSkipped ==
    /\ MultistatusAnswered
    /\ Len(calls[1].xml) = 3
    /\ ~calls[1].xml[2].hasProp
    /\ Len(response.listing.contents) = 1

-----------------------------------------------------------------------------
(* Presigned URLs fetched as they are, under SigSpec.                      *)

\* verifySignature has answered the request of a presigned URL that carries
\* the signature in the query and no Authorization header.
BearerVerified ==
    /\ sphase = "verified"
    /\ signed.by = "bearer"
    /\ sreq = BearerRequest(presigned)

\* C24: a GET with the path and the X-Amz-* query parameters of a URL made
\* by createPresignedUrl, X-Amz-Signature among them, and without an
\* Authorization header is accepted by the verification of the gateway.
C24_PresignedUrlAccepted ==
    BearerVerified => vres.valid

\* Every such request is refused for its missing Authorization header.
BearerRefusedForMissingHeader ==
    BearerVerified =>
        /\ ~vres.valid
        /\ ~vres.threw
        /\ vres.error = ErrMissingAuthorization

-----------------------------------------------------------------------------
(* The signed-headers string of the canonical request, under SigSpec.      *)

\* The header names of the lines of a canonical headers block, in order.
RECURSIVE LineNames(_)
LineNames(lines) ==
    IF lines = <<>> THEN <<>>
    ELSE IF Head(lines) = <<>> THEN LineNames(Tail(lines))
    ELSE <<<<Head(Head(lines))>>>> \o LineNames(Tail(lines))

HeaderBlockNames == LineNames(Split(vres.canonicalHeaders, "\n"))

\* verifySignature has built the canonical request of a request made by
\* hand.
ForgedCanonical ==
    /\ Verified
    /\ signed.by = "forged"
    /\ vres.computed

\* C25: the signed-headers string of the canonical request is the header
\* names in lower case joined with semicolons, in the order of the lines
\* of the canonical headers block, for every SignedHeaders list, also one
\* that spells a name with upper-case letters.
C25_SignedHeadersLowerCase ==
    ForgedCanonical =>
        /\ HeaderBlockNames = Split(LowerSeq(signed.names), ";")
        /\ vres.signedHeaders = Join(HeaderBlockNames, <<";">>)

\* The names are in the order of the lines, in the case the Authorization
\* header spells them.
SignedHeadersAsSpelled ==
    ForgedCanonical =>
        /\ HeaderBlockNames = Split(LowerSeq(signed.names), ";")
        /\ vres.signedHeaders = signed.names
        /\ LowerSeq(vres.signedHeaders) = Join(HeaderBlockNames, <<";">>)

\* A canonical request was built for SignedHeaders=Host.
UpperCaseNameSigned ==
    /\ ForgedCanonical
    /\ signed.names = <<"Host">>
    /\ vres.signedHeaders = <<"Host">>
    /\ HeaderBlockNames = <<<<"host">>>>

\* A canonical request was built for two signed headers.
TwoHeadersSigned ==
    /\ ForgedCanonical
    /\ HeaderBlockNames = <<<<"host">>, <<"x-amz-date">>>>

-----------------------------------------------------------------------------
(* The canonical query string, under SigSpec.                              *)

\* The query parameters createPresignedUrl signs, as names and values.
PresignedParameters == searchParams(presigned.canonicalQueryParams)

\* The canonical query string verifySignature built is the parameters
\* sorted by name in byte order, names and values percent-encoded.
VerifierQueryCanonical ==
    (Verified /\ vres.computed) =>
        Flatten(vres.queryParams) = Flatten(AwsCanonicalQueryString(sreq.query))

\* The same for the query string createPresignedUrl signs.
PresignedQueryCanonical ==
    presigned.made =>
        Flatten(presigned.canonicalQueryParams) =
            Flatten(AwsCanonicalQueryString(PresignedParameters))

\* C26: the canonical query string lists the query parameters sorted by
\* name in byte order, each name and value percent-encoded with '/' as
\* %2F, in verifySignature for every set of parameter names and in
\* createPresignedUrl for every parameter value.
C26_CanonicalQuery ==
    /\ VerifierQueryCanonical
    /\ PresignedQueryCanonical

\* What does hold in the verifier: a '/' of a name or value is never left
\* as it is, and the entries are those of the request in some order.
VerifierEncodesSlash ==
    (Verified /\ vres.computed) =>
        /\ \A i \in 1..Len(vres.queryParams) : vres.queryParams[i] # "/"
        /\ Len(Split(vres.queryParams, "&")) =
                IF sreq.query = <<>> THEN 1 ELSE Len(sreq.query)

\* verifySignature built the query string of a request whose values hold
\* a '/'.
SlashInQueryVerified ==
    /\ Verified
    /\ vres.computed
    /\ \E i \in 1..Len(sreq.query) :
            \E j \in 1..Len(sreq.query[i][2]) : sreq.query[i][2][j] = "/"

-----------------------------------------------------------------------------
(* Concurrent PutObject requests against one WebDAV server.  store holds   *)
(* the URLs that exist on the server beside the base URL; puts holds, for   *)
(* every request, where its handler stands.  A step of a handler is one    *)
(* fetch: the server answers it and changes at once.                        *)

PutRequests == {"r1", "r2"}

PutBucket == <<"bucket">>

PutKeys ==
    {<<"a.txt">>, <<"photos", "/", "a.jpg">>, <<"photos", "/", "b.jpg">>,
     <<"photos", "/", "2024", "/", "c.jpg">>}

\* The directories that may exist before the requests arrive.
PutDirs ==
    <<buildUrl(ExampleEnv, <<"bucket", "/">>),
      buildUrl(ExampleEnv, <<"bucket", "/", "photos", "/">>),
      buildUrl(ExampleEnv, <<"bucket", "/", "photos", "/", "2024", "/">>)>>

InitialStores == {{PutDirs[i] : i \in 1..n} : n \in 0..Len(PutDirs)}

\* The collection a URL lies in.
ParentUrl(url) ==
    IF url[Len(url)] = "/" THEN SubSeq(url, 1, Len(url) - 2)
    ELSE SubSeq(url, 1, Len(url) - 1)

Exists(url) == url = getWebDAVBaseUrl(env) \/ url \in store

\* The WebDAV server: the status of a request, and the store after it.
ServerStatus(method, url) ==
    IF method = "HEAD" THEN (IF Exists(url) THEN 200 ELSE 404)
    ELSE IF method = "MKCOL"
    THEN (IF Exists(url) THEN 405
          ELSE IF Exists(ParentUrl(url)) THEN 201 ELSE 409)
    ELSE (IF ~Exists(ParentUrl(url)) THEN 409
          ELSE IF Exists(url) THEN 204 ELSE 201)

ServerStore(method, url) ==
    IF method \in {"MKCOL", "PUT"} /\ ServerStatus(method, url) = 201
    THEN store \cup {url} ELSE store

PutPath(r) == buildWebDAVPath(PutBucket, puts[r].key)

\* The ancestor directories of the target of a request, as URLs.
AncestorsOf(r) ==
    {buildUrl(env, DirsOf(FilterBoolean(Split(PutPath(r), "/")), <<>>)[i]) :
        i \in 1..Len(DirsOf(FilterBoolean(Split(PutPath(r), "/")), <<>>))}

PutCall(method, path) ==
    [method |-> method, url |-> buildUrl(env, path),
     status |-> ServerStatus(method, buildUrl(env, path))]

PutInit ==
    /\ env = ExampleEnv
    /\ SignatureIdle
    /\ GatewayIdle
    /\ XmlIdle
    /\ store \in InitialStores
    /\ puts \in [PutRequests ->
                    {[key |-> k, pc |-> "PutObject", pending |-> <<>>,
                      calls |-> <<>>, response |-> NoResponse] : k \in PutKeys}]

\* handlePutObject up to the first fetch: the path, and the directories
\* ensureParentDirs is to walk.
PutStart ==
    \E r \in PutRequests :
        /\ puts[r].pc = "PutObject"
        /\ puts' = [puts EXCEPT
                ![r].pending = ParentDirs(PutPath(r)),
                ![r].pc = IF ParentDirs(PutPath(r)) = <<>> THEN "put" ELSE "head"]
        /\ UNCHANGED <<env, sigVars, gwVars, xmlVars, store>>

\* ensureParentDirs: the HEAD of the next directory.
PutHead ==
    \E r \in PutRequests :
        /\ puts[r].pc = "head"
        /\ puts' = [puts EXCEPT
                ![r].calls = Append(@, PutCall("HEAD", Head(puts[r].pending))),
                ![r].pending =
                    IF Ok(PutCall("HEAD", Head(puts[r].pending)).status)
                    THEN Tail(@) ELSE @,
                ![r].pc =
                    IF ~Ok(PutCall("HEAD", Head(puts[r].pending)).status)
                    THEN "mkcol"
                    ELSE IF Tail(puts[r].pending) = <<>> THEN "put" ELSE "head"]
        /\ UNCHANGED <<env, sigVars, gwVars, xmlVars, store>>

\* ensureParentDirs: the MKCOL of a directory whose HEAD was not ok; its
\* status is only logged.
PutMkcol ==
    \E r \in PutRequests :
        /\ puts[r].pc = "mkcol"
        /\ puts' = [puts EXCEPT
                ![r].calls = Append(@, PutCall("MKCOL", Head(puts[r].pending))),
                ![r].pending = Tail(@),
                ![r].pc = IF Tail(puts[r].pending) = <<>> THEN "put" ELSE "head"]
        /\ store' = ServerStore("MKCOL", buildUrl(env, Head(puts[r].pending)))
        /\ UNCHANGED <<env, sigVars, gwVars, xmlVars>>

\* The PUT of the object and the answer of handlePutObject.
PutPut ==
    \E r \in PutRequests :
        /\ puts[r].pc = "put"
        /\ puts' = [puts EXCEPT
                ![r].calls = Append(@, PutCall("PUT", PutPath(r))
                                       @@ [ready |-> \A d \in AncestorsOf(r) : Exists(d)]),
                ![r].response = PutObjectResponse(PutCall("PUT", PutPath(r)).status),
                ![r].pc = "done"]
        /\ store' = ServerStore("PUT", buildUrl(env, PutPath(r)))
        /\ UNCHANGED <<env, sigVars, gwVars, xmlVars>>

PutNext ==
    \/ PutStart
    \/ PutHead
    \/ PutMkcol
    \/ PutPut

PutSpec == PutInit /\ [][PutNext]_vars

\* The calls of a request with a method.
PutCallsOf(r, method) ==
    {i \in 1..Len(puts[r].calls) : puts[r].calls[i].method = method}

\* C27: two PutObject requests on keys with a common ancestor directory
\* that is missing upstream need no lock: however their HEAD, MKCOL and
\* PUT calls interleave, a request issues its PUT only when every ancestor
\* directory of its target exists, and each request answers 200.
C27_ConcurrentPutsSafe ==
    \A r \in PutRequests :
        /\ puts[r].pc = "put" => \A d \in AncestorsOf(r) : Exists(d)
        /\ \A i \in PutCallsOf(r, "PUT") :
                puts[r].calls[i].ready /\ puts[r].calls[i].status \in {201, 204}
        /\ \A i \in PutCallsOf(r, "MKCOL") : puts[r].calls[i].status \in {201, 405}
        /\ puts[r].pc = "done" =>
                /\ Cardinality(PutCallsOf(r, "PUT")) = 1
                /\ puts[r].response.status = 200

\* Both requests found the bucket directory missing, one created it and
\* the other was told 405; both answered 200.
C27_Witness ==
    /\ puts["r1"].key # puts["r2"].key
    /\ \A r \in PutRequests : puts[r].pc = "done" /\ puts[r].response.status = 200
    /\ \E r \in PutRequests : \E i \in PutCallsOf(r, "MKCOL") :
            /\ puts[r].calls[i].status = 405
            /\ puts[r].calls[i].url = buildUrl(env, <<"bucket", "/">>)
    /\ \E r \in PutRequests : \E i \in PutCallsOf(r, "MKCOL") :
            /\ puts[r].calls[i].status = 201
            /\ puts[r].calls[i].url = buildUrl(env, <<"bucket", "/">>)

-----------------------------------------------------------------------------
(* Listing a bucket and then getting what it lists.                        *)

\* The origin of the server of a deployment.
ServerOrigin == <<"https://dav.example">>

\* The path of the directory of the bucket on the server.
BucketDirectory == BasePath(env) \o <<"/">> \o s3Request.bucket \o <<"/">>

\* A child the PROPFIND returned that is no collection and whose href is a
\* full URL or a path from the root of the server, inside the directory
\* of the bucket.
IsListedFile(r) ==
    /\ ~r.isCollection
    /\ Head(r.href) \in Origins \/ StartsWith(r.href, <<"/">>)
    /\ StartsWith(UrlPath(r.href), BucketDirectory)

\* The URL the href of such a resource denotes.
HrefUrl(href) == IF Head(href) \in Origins THEN href ELSE ServerOrigin \o href

\* The URL the gateway requests for a GetObject of a key of the bucket:
\* the request GET /{bucket}/{key} through parseS3Request, buildWebDAVPath
\* and buildUrl.
GetObjectPath(req) == buildWebDAVPath(req.bucket, req.key)

GetObjectUrl(bucket, key) ==
    buildUrl(env, GetObjectPath(parseS3Request(
        [method |-> <<"GET">>, pathname |-> <<"/">> \o bucket \o <<"/">> \o key])))

\* The listing of a bucket was answered.
BucketListed ==
    /\ ListAnswered
    /\ s3Request.bucket # <<>>

\* The keys contents reports for a resource.
KeysOf(r) == {Contents[i].key : i \in ContentsOf(r)}

\* C28: for every base URL, also one whose path is not the root, and
\* every resource that is no collection among those the PROPFIND of a
\* ListBucket on a bucket returned, the key contents reports for it makes
\* a GetObject on the bucket request the URL the href of the resource
\* denotes.
C28_ListThenGet ==
    BucketListed =>
        \A i \in 1..Len(Children) :
            IsListedFile(Children[i]) =>
                \A key \in KeysOf(Children[i]) :
                    Flatten(GetObjectUrl(s3Request.bucket, key)) =
                        Flatten(HrefUrl(Children[i].href))

\* The same where the path of the base URL is the root.
ListThenGetAtRoot ==
    (BucketListed /\ BasePath(env) = <<>>) => C28_ListThenGet

\* A file of the bucket was listed by a deployment whose base URL is the
\* root of its server.
FileListedAtRoot ==
    /\ BucketListed
    /\ BasePath(env) = <<>>
    /\ \E i \in 1..Len(Children) :
            /\ IsListedFile(Children[i])
            /\ Children[i].href = <<"/", "bucket", "/", "a.txt">>
            /\ KeysOf(Children[i]) = {<<"a.txt">>}
            /\ GetObjectUrl(s3Request.bucket, <<"a.txt">>) =
                    <<"https://dav.example", "/", "bucket", "/", "a.txt">>

-----------------------------------------------------------------------------
(* The operations a request can be dispatched to.                          *)

\* The operations parseS3Request assigns.
ParsedOperations ==
    {"GetObject", "PutObject", "DeleteObject", "HeadObject", "ListBucket",
     "HeadBucket", "Unknown"}

\* The cases of handleS3Operation that lead to handleGetObjectStream and
\* to handleCreatePresignedGetUrl.
UnparsedOperations == {"GetObjectStream", "CreatePresignedGetUrl"}

-----------------------------------------------------------------------------
(* DELETE requests without a key.                                          *)

\* C30: a DELETE with a valid signature is handled as DeleteObject
\* whatever its key: for a path that names only a bucket the gateway sends
\* the WebDAV DELETE for the collection {bucket}/, for the path / it sends
\* it for the base URL itself, and in neither case is the request refused
\* for its missing key.
C30_DeleteWithoutKey ==
    /\ (invoked /\ UpperSeq(inbound.method) = <<"DELETE">>) =>
            s3Request.operation = "DeleteObject"
    /\ (DeleteObjectAnswered /\ s3Request.key = <<>>) =>
            /\ Len(calls) = 1
            /\ calls[1].method = "DELETE"
            /\ calls[1].url =
                    IF s3Request.bucket = <<>> THEN getWebDAVBaseUrl(env)
                    ELSE getWebDAVBaseUrl(env) \o s3Request.bucket \o <<"/">>
            /\ response = DeleteObjectResponse(calls[1].status)
            /\ Ok(calls[1].status) => response.status = 204

\* A DELETE of the path / was answered 204 after the DELETE of the base
\* URL.
C30_Witness ==
    /\ DeleteObjectAnswered
    /\ inbound.pathname = <<"/">>
    /\ s3Request.bucket = <<>>
    /\ s3Request.key = <<>>
    /\ calls = <<[method |-> "DELETE", url |-> getWebDAVBaseUrl(env), status |-> 204]>>
    /\ response.status = 204

\* A DELETE of a bucket was answered 204 after the DELETE of its
\* collection.
BucketCollectionDeleted ==
    /\ DeleteObjectAnswered
    /\ inbound.pathname = <<"/", "bucket">>
    /\ calls[1].url = getWebDAVBaseUrl(env) \o <<"bucket", "/">>
    /\ calls[1].status = 204
    /\ response.status = 204

=============================================================================
